---- MODULE Spec2Model ----
(***************************************************************************)
(* Model of the cat-mischief simulation kernel: the paw swipe state        *)
(* machine (PawInteractionSystem), the paw presentation (AnimationSystem), *)
(* the interaction resolver (handleKnock / handleScratch / handleNpcPoke), *)
(* the physics layer (PhysicsSystem), the humanoid agent (NpcSystem), the  *)
(* keyboard input (InputSystem), the tasks and score (TaskSystem), the     *)
(* seeded generator (utils/rng) and the per frame call order of            *)
(* Game.animate.                                                           *)
(*                                                                         *)
(* Units.  Time is in milliseconds, lengths in centimetres, directions,    *)
(* velocities and impulses in thousandths (1000 = 1.0).  A normalised      *)
(* vector is computed in fixed point with an integer square root.          *)
(***************************************************************************)
EXTENDS FiniteSets, Integers, Sequences, TLC

VARIABLES
  entities,              \* World.entities: id -> entity (type, position, velocity, data)
  leftSwipe,             \* PawInteractionSystem.leftSwipe
  rightSwipe,            \* PawInteractionSystem.rightSwipe
  entitiesHitThisSwipe,  \* PawInteractionSystem.entitiesHitThisSwipe (one set for both sides)
  leftPawCollider,       \* centre of PawInteractionSystem.leftPawCollider, <<>> = null
  rightPawCollider,      \* centre of PawInteractionSystem.rightPawCollider, <<>> = null
  animations,            \* AnimationSystem.animations
  leftPawPressed,        \* InputSystem.state.leftPawPressed
  rightPawPressed,       \* InputSystem.state.rightPawPressed
  initialized,           \* PhysicsSystem.initialized
  rapierWorld,           \* PhysicsSystem.rapierWorld: "null" or "world"
  initPending,           \* the promise of PhysicsSystem.initializeAsync is not settled yet
  entityBodyMap,         \* PhysicsSystem.entityBodyMap: id -> "dynamic" | "fixed"
  entityColliderMap,     \* PhysicsSystem.entityColliderMap: id -> collider handle
  rigidBodies,           \* the backend's bodies by the id they are registered under: pose and impulses
  lastCall,              \* the last call into the physics layer or event delivered: result, whether it threw
  keys,                  \* InputSystem.keys
  previousKeys,          \* InputSystem.previousKeys
  tapTimers,             \* InputSystem.tapTimers: key -> remaining hold in ms
  presses,               \* per side: progress of the one key press and the updates that reported it
  timeouts,              \* per agent: setTimeout callbacks scheduled and not yet run
  tasks,                 \* TaskSystem.tasks: task id -> type, required, progress, completed
  score,                 \* TaskSystem.score
  globalRNG,             \* utils/rng globalRNG: whether it is set, SeededRNG.seed, calls and last result
  log,                   \* per entity: calls and events observed at the resolver's outputs
  swipeEvents,           \* per side and entity: handleSwipeInteraction calls of the side's activation
  inRangeAll,            \* per side: entities within range on every Active tick of the activation so far
  inRangeAny,            \* per side: entities within range on some Active tick of the activation so far
  pawOverlap,            \* per side: entities within range when the side's check ran this frame
  cycle,                 \* per side: states visited, clear() calls and collision checks of the side's activation
  swipes,                \* number of activations started so far (bounded by MaxSwipes)
  agents                 \* per npc_humanoid: the rest of entity.data (rig, timers, speed) and observers

vars == <<entities, leftSwipe, rightSwipe, entitiesHitThisSwipe, leftPawCollider,
          rightPawCollider, animations, leftPawPressed, rightPawPressed, initialized,
          rapierWorld, initPending, entityBodyMap, entityColliderMap, rigidBodies,
          lastCall, keys, previousKeys, tapTimers, presses, timeouts, tasks, score,
          globalRNG, log, swipeEvents,
          inRangeAll, inRangeAny, pawOverlap, cycle, swipes, agents>>

(***************************************************************************)
(* Bounds of the model.                                                    *)
(***************************************************************************)
MaxSwipes == 2      \* activations started in one behaviour of the swipe specification
MaxDtSteps == 3     \* raw frame deltas are 50 ms .. MaxDtSteps * 50 ms before the cap
MaxHits == 22       \* hits delivered to one entity in the resolver specification
MaxWalk == 2        \* updates in which the agent walks or is pushed, in one behaviour of the agent specification
MaxPokes == 2       \* swipe hits on the agent in one behaviour of the agent specification
MaxImpulses == 1    \* direct applyImpulse calls per body in one behaviour of the physics specification
MaxKnocks == 1      \* hits delivered to one prop in one behaviour of the physics specification
MaxDtQuarters == 4  \* raw frame deltas are 25 ms .. MaxDtQuarters * 25 ms before the cap
MaxLongDt == 8      \* uncapped frame deltas are 50 ms .. MaxLongDt * 50 ms
MaxDraws == 15      \* getRandom() calls in one behaviour of the generator specification

(***************************************************************************)
(* Program constants.                                                      *)
(***************************************************************************)
swipeStartupTime == 75
swipeActiveTime == 175
swipeRecoveryTime == 100
maxDeltaTime == 100
swipeDuration == 150
returnDuration == 100
pawRadius == 12
hitMargin == 30
impulseStrength == 5
impulseUp == 2500
fallbackStrength == 8
fallbackUp == 3000
scratchIncrement == 5
scratchMax == 100
pokeCooldown == 1500
pokeStepBack == 80
boundsMax == 650
walkSpeed == 120
wanderRadius == 500
wanderInterval == 3000
wanderJitter == 2000
personalSpaceRadius == 180
hysteresisMargin == 50
awarenessRadius == 270
avoidSpeed == 150
avoidReach == 200
recoverDelay == 2000
minSeparation == 60
arriveDistance == 50
npcHeight == 145
\* the floor's box collider: centre height and thickness, in cm
floorColliderY == -10
floorThickness == 20
\* the height threshold of the fallback ground checks, in cm
groundEpsilon == 55
\* PlayerSystem.groundRayDistance, in cm
groundRayDistance == 60
\* InputSystem.tapHoldSeconds, in ms
tapHoldSeconds == 120
knockPoints == 10             \* awardPoints(10) of handleKnock
scratchCompletePoints == 50   \* awardPoints(50) of handleScratch
scratchPoints == 1            \* awardPoints(1) of handleScratch
taskBonus == 100              \* addScore(100) of handleTaskEvent
lcgModulus == 2147483647      \* SeededRNG: 2^31 - 1
lcgMultiplier == 16807        \* SeededRNG.random
\* updateWander's threshold between the walk and the idle animation, in cm/s
walkAnimationSpeed == 10

Sides == {"left", "right"}
Other(side) == IF side = "left" THEN "right" ELSE "left"

(***************************************************************************)
(* Vectors (THREE.Vector3) in fixed point.                                 *)
(***************************************************************************)
Vec(x, y, z) == <<x, y, z>>
Zero3 == <<0, 0, 0>>
SubVectors(a, b) == <<a[1] - b[1], a[2] - b[2], a[3] - b[3]>>
AddVectors(a, b) == <<a[1] + b[1], a[2] + b[2], a[3] + b[3]>>
LengthSq(v) == v[1] * v[1] + v[2] * v[2] + v[3] * v[3]
Abs(n) == IF n < 0 THEN -n ELSE n
Min(a, b) == IF a <= b THEN a ELSE b
Max(a, b) == IF a >= b THEN a ELSE b
Clamp(x, lo, hi) == Max(lo, Min(hi, x))

\* floor of the square root (Math.sqrt on the fixed-point grid)
RECURSIVE ISqrt(_)
ISqrt(n) ==
  IF n < 2 THEN n
  ELSE LET s == 2 * ISqrt(n \div 4)
       IN IF (s + 1) * (s + 1) <= n THEN s + 1 ELSE s

\* truncated division of a signed numerator by a positive denominator
DivT(a, b) == IF a >= 0 THEN a \div b ELSE -((-a) \div b)

\* Vector3.normalize(): v / |v|, the zero vector stays zero; result in thousandths
Normalize(v) ==
  LET len == ISqrt(LengthSq(v) * 100)      \* |v| in tenths of a length unit
  IN IF len = 0 THEN Zero3
     ELSE <<DivT(v[1] * 10000, len), DivT(v[2] * 10000, len), DivT(v[3] * 10000, len)>>

\* Vector3.multiplyScalar on a vector in thousandths
MultiplyScalar(v, k) == <<v[1] * k, v[2] * k, v[3] * k>>

(***************************************************************************)
(* The entity store (World).  Every entity record carries all payload      *)
(* fields; a field a kind does not use keeps its initial value.            *)
(***************************************************************************)
PlayerId == "player"
FloorId == "floor"
PropIds == {"prop_a", "prop_b"}
StoreIds == PropIds \cup {PlayerId, FloorId}
PropPosition(id) ==
  CASE id = "prop_a" -> Vec(100, 0, 0)
    [] id = "prop_b" -> Vec(100, 0, 30)
    [] id = FloorId -> Vec(90, 0, 10)

\* the id HouseBuilder registers the floor's box collider under: no entity has it
FloorColliderId == "floor_collider"

\* where the scene puts an entity or a collider
Home(id) ==
  CASE id = PlayerId -> Vec(0, 0, 0)
    [] id = FloorColliderId -> Vec(0, floorColliderY, 0)
    [] OTHER -> PropPosition(id)

\* an entity as the scene builders and World.createHumanoidNpc create it
NewEntity(type, position) ==
  [type |-> type, position |-> position, velocity |-> Zero3,
   knocked |-> FALSE, scratchProgress |-> 0, scratchComplete |-> FALSE,
   reactionCooldown |-> 0, aiState |-> "undefined", facing |-> Vec(0, 0, 1000)]

\* poses the player controller can put the cat in: body position and the
\* world positions of the two paws (updatePawColliders reads them every frame)
Poses ==
  { [position |-> Vec(0, 0, 0),   left |-> Vec(0, 0, -15), right |-> Vec(0, 0, 15)],
    [position |-> Vec(60, 0, 30), left |-> Vec(82, 0, 6),  right |-> Vec(82, 0, 48)] }

\* Math.min(clock.getDelta(), 0.1)
DeltaTimes == { Min(k * 50, maxDeltaTime) : k \in 1..MaxDtSteps }

(***************************************************************************)
(* AnimationSystem.  progress is kept in milliseconds: the source adds     *)
(* deltaTime / duration and completes at 1.0, i.e. when the accumulated    *)
(* time reaches the duration.                                              *)
(***************************************************************************)
SwipeAnim(paw) ==
  [paw |-> paw, kind |-> "swipe", progress |-> 0, duration |-> swipeDuration, isPlaying |-> TRUE]

\* C36 mutant: the return animation takes twice as long
playPawReturnSlow(anims, paw) ==
  Append(anims, [paw |-> paw, kind |-> "return", progress |-> 0,
                 duration |-> 2 * returnDuration, isPlaying |-> TRUE])

\* AnimationSystem.playPawReturn pushes the return animation
playPawReturn(anims, paw) ==
  Append(anims, [paw |-> paw, kind |-> "return", progress |-> 0,
                 duration |-> returnDuration, isPlaying |-> TRUE])

\* Array.splice(i, 1)
Splice(seq, i) == [j \in 1..(Len(seq) - 1) |-> IF j < i THEN seq[j] ELSE seq[j + 1]]

\* AnimationSystem.cancelPawAnimation
cancelPawAnimation(anims, paw) == SelectSeq(anims, LAMBDA a : a.paw # paw)

\* AnimationSystem.playLeftPawSwipe / playRightPawSwipe
playPawSwipe(anims, paw) == Append(cancelPawAnimation(anims, paw), SwipeAnim(paw))

\* AnimationSystem.isAnimating
isAnimating(anims, paw) ==
  \E i \in 1..Len(anims) : anims[i].paw = paw /\ anims[i].isPlaying

\* the loop of AnimationSystem.update, from index i down to the first element
RECURSIVE AnimationLoop(_, _, _)
AnimationLoop(anims, i, deltaTime) ==
  IF i = 0 THEN anims
  ELSE LET anim == anims[i]
       IN IF ~anim.isPlaying THEN AnimationLoop(anims, i - 1, deltaTime)
          ELSE IF anim.progress + deltaTime >= anim.duration
               THEN LET called == IF anim.kind = "swipe"
                                  THEN playPawReturn(anims, anim.paw)
                                  ELSE anims
                    IN AnimationLoop(Splice(called, i), i - 1, deltaTime)
               ELSE AnimationLoop([anims EXCEPT ![i].progress = @ + deltaTime],
                                  i - 1, deltaTime)

\* AnimationSystem.update
AnimationUpdate(anims, deltaTime) == AnimationLoop(anims, Len(anims), deltaTime)

(***************************************************************************)
(* PhysicsSystem: readiness and impulse forwarding.                        *)
(***************************************************************************)
\* PhysicsSystem.isReady
isReady == initialized /\ rapierWorld # "null"

\* PhysicsSystem.applyImpulse reaches the backend body only for a registered dynamic body
ImpulseReachesBody(bodyMap, entityId) ==
  entityId \in DOMAIN bodyMap /\ bodyMap[entityId] = "dynamic"

\* a body as the collider helpers create it: at the given pose, at rest
NewBody(position, rotation) ==
  [translation |-> position, rotation |-> rotation, impulses |-> 0, impulse |-> Zero3]

\* C22 mutant: the impulse is forwarded to every registered body
applyImpulseAnyBody(bodyMap, bodies, entityId, impulse) ==
  IF entityId \in DOMAIN bodyMap
  THEN [bodies EXCEPT ![entityId].impulses = @ + 1, ![entityId].impulse = impulse]
  ELSE bodies

\* PhysicsSystem.applyImpulse: rigidBody.applyImpulse(impulse, true) behind
\* if (rigidBody && rigidBody.isDynamic && rigidBody.isDynamic())
applyImpulse(bodyMap, bodies, entityId, impulse) ==
  IF ImpulseReachesBody(bodyMap, entityId)
  THEN [bodies EXCEPT ![entityId].impulses = @ + 1, ![entityId].impulse = impulse]
  ELSE bodies

\* the applyImpulse calls handleKnock made for the hits of one frame: n
\* calls for the entity with the impulse of the last one
RECURSIVE applyImpulses(_, _, _, _, _)
applyImpulses(bodyMap, bodies, entityId, impulse, n) ==
  IF n = 0 THEN bodies
  ELSE applyImpulses(bodyMap, applyImpulse(bodyMap, bodies, entityId, impulse),
                     entityId, impulse, n - 1)

\* the backend bodies after the resolver took the log from lg0 to lg1
ForwardImpulses(bodyMap, bodies, lg0, lg1) ==
  [id \in DOMAIN bodies |->
     IF id \in DOMAIN lg1
     THEN applyImpulses(bodyMap, bodies, id, lg1[id].lastImpulse,
                        lg1[id].applyImpulseCalls - lg0[id].applyImpulseCalls)[id]
     ELSE bodies[id]]

\* C21 mutant: the rotation is copied for every kind
SyncsRotationAlways(entity) == TRUE

\* syncEntityFromRigidBody's rotation guard: if (entity.type !== 'player')
SyncsRotation(entity) == entity.type # "player"

\* PhysicsSystem.syncEntityFromRigidBody
syncEntityFromRigidBody(entity, body) ==
  LET moved == [entity EXCEPT !.position = body.translation]
  IN IF SyncsRotation(entity) THEN [moved EXCEPT !.facing = body.rotation] ELSE moved

\* the loop of PhysicsSystem.update picks the bodies to copy back:
\* if (entity && rigidBody.isDynamic && rigidBody.isDynamic())
SyncsEntity(ents, bodyMap, entityId) ==
  entityId \in DOMAIN ents /\ entityId \in DOMAIN bodyMap /\ bodyMap[entityId] = "dynamic"

\* the entity store after the loop of PhysicsSystem.update
SyncEntities(ents, bodyMap, bodies) ==
  [id \in DOMAIN ents |->
     IF SyncsEntity(ents, bodyMap, id)
     THEN syncEntityFromRigidBody(ents[id], bodies[id])
     ELSE ents[id]]

\* C25 mutant: update goes on without a backend
UpdateNeverReturnsEarly(rw, init) == FALSE

\* the first line of PhysicsSystem.update: if (!this.rapierWorld || !this.initialized) return
UpdateReturnsEarly(rw, init) == rw = "null" \/ ~init

\* rapierWorld.step(): the simulation moves and turns the dynamic bodies
\* (to a displacement from where the scene puts them), fixed bodies stay
Step(bodyMap, bodies, motion) ==
  [id \in DOMAIN bodies |->
     IF bodyMap[id] = "dynamic"
     THEN [bodies[id] EXCEPT !.translation = AddVectors(Home(id), motion.d),
                             !.rotation = motion.rotation]
     ELSE bodies[id]]

\* the faces of the floor's box collider
floorTop == floorColliderY + DivT(floorThickness, 2)
floorBottom == floorColliderY - DivT(floorThickness, 2)

\* castRay along -Y against the floor collider: a box from floorBottom to
\* floorTop; a solid ray that starts inside the box hits at once
RayHitsFloor(originY, maxDistance) ==
  originY >= floorBottom /\ originY - floorTop <= maxDistance

\* PhysicsSystem.raycast for a ray along -Y: "null" or "hit".  queryFails
\* says that building or casting the ray threw inside the try block.
raycast(rw, bodies, originY, maxDistance, queryFails) ==
  IF rw = "null" THEN "null"
  ELSE IF queryFails THEN (IF originY <= groundEpsilon THEN "hit" ELSE "null")
  ELSE IF FloorColliderId \in DOMAIN bodies /\ RayHitsFloor(originY, maxDistance)
       THEN "hit" ELSE "null"

\* the fallback PhysicsSystem of RapierHelpers.ts: checkGrounded
checkGrounded(positionY) == positionY <= groundEpsilon

\* C24 mutant: the query's exception leaves overlapSphere
OverlapUncaught == [result |-> {}, threw |-> TRUE]

\* the catch branch of overlapSphere
OverlapCaught == [result |-> {}, threw |-> FALSE]

\* PhysicsSystem.overlapSphere: the ids whose colliders intersect the ball
\* (a collider is taken as its centre), the empty list without a backend or
\* when the query throws
overlapSphere(rw, bodies, center, radius, queryFails) ==
  IF rw = "null" THEN [result |-> {}, threw |-> FALSE]
  ELSE IF queryFails THEN OverlapCaught
  ELSE [result |-> { id \in DOMAIN bodies :
                       LengthSq(SubVectors(center, bodies[id].translation)) <= radius * radius },
        threw |-> FALSE]

(***************************************************************************)
(* Interaction resolver.  Each handler maps the target entity and the log  *)
(* entry of the target to their new values.                                *)
(***************************************************************************)
NewLog ==
  [hits |-> 0, knockEvents |-> 0, scratchCompleteEvents |-> 0, pokedEvents |-> 0,
   applyImpulseCalls |-> 0, bodyImpulses |-> 0, velocityKicks |-> 0,
   lastImpulse |-> Zero3, lastDirection |-> Zero3]

\* C7 mutant: the floor is classified as interactable too
isInteractableWithFloor(entity) ==
  entity.type \in {"knockable", "scratchable", "pickupable", "npc_humanoid", "floor"}

\* PawInteractionSystem.isInteractable
isInteractable(entity) ==
  \/ entity.type = "knockable"
  \/ entity.type = "scratchable"
  \/ entity.type = "pickupable"
  \/ entity.type = "npc_humanoid"

\* C9 mutant: the physics path is taken whether or not the backend is ready
UsesPhysicsUnready(entityId, ready) == entityId # ""

\* handleKnock's branch condition: entityId && this.physics && this.physics.isReady()
UsesPhysics(entityId, ready) == entityId # "" /\ ready

\* C8 mutant: the knock event is emitted on every hit
KnockFiresAlways(target) == TRUE

\* handleKnock's scoring guard: if (!target.data.knocked)
KnockFires(target) == ~target.knocked

\* handleKnock's impulse for the backend: direction * 5.0, then impulse.y += 2.5
BackendImpulse(direction) ==
  LET i == MultiplyScalar(direction, impulseStrength)
  IN Vec(i[1], i[2] + impulseUp, i[3])

\* C30 mutant: the kick pulls the prop towards the paw
FallbackImpulseTowardsPaw(direction) ==
  LET i == MultiplyScalar(direction, -fallbackStrength)
  IN Vec(i[1], fallbackUp, i[3])

\* handleKnock's impulse for the velocity kick: direction * 8, then impulse.y = 3
FallbackImpulse(direction) ==
  LET i == MultiplyScalar(direction, fallbackStrength)
  IN Vec(i[1], fallbackUp, i[3])

\* PawInteractionSystem.handleKnock
handleKnock(target, lg, entityId, direction, ready, bodyMap) ==
  LET viaPhysics == UsesPhysics(entityId, ready)
      impulse == IF viaPhysics THEN BackendImpulse(direction) ELSE FallbackImpulse(direction)
      t1 == IF viaPhysics THEN target
            ELSE [target EXCEPT !.velocity = AddVectors(@, impulse)]
      l0 == [lg EXCEPT !.lastImpulse = impulse, !.lastDirection = direction]
      l1 == IF viaPhysics
            THEN [l0 EXCEPT !.applyImpulseCalls = @ + 1,
                            !.bodyImpulses = IF ImpulseReachesBody(bodyMap, entityId)
                                             THEN @ + 1 ELSE @]
            ELSE [l0 EXCEPT !.velocityKicks = @ + 1]
  IN IF KnockFires(t1)
     THEN [entity |-> [t1 EXCEPT !.knocked = TRUE],
           log |-> [l1 EXCEPT !.knockEvents = @ + 1]]
     ELSE [entity |-> t1, log |-> l1]

\* C10 mutant: scratch_complete is emitted on every hit at full progress
ScratchCompleteFiresAlways(target) == TRUE

\* handleScratch's scoring guard: if (!target.data.scratchComplete)
ScratchCompleteFires(target) == ~target.scratchComplete

\* PawInteractionSystem.handleScratch
handleScratch(target, lg) ==
  LET progress == target.scratchProgress + scratchIncrement
  IN IF progress >= scratchMax
     THEN IF ScratchCompleteFires(target)
          THEN [entity |-> [target EXCEPT !.scratchProgress = scratchMax,
                                          !.scratchComplete = TRUE],
                log |-> [lg EXCEPT !.scratchCompleteEvents = @ + 1]]
          ELSE [entity |-> [target EXCEPT !.scratchProgress = scratchMax], log |-> lg]
     ELSE [entity |-> [target EXCEPT !.scratchProgress = progress], log |-> lg]

\* C37 mutant: the poke sets the state but starts no cooldown
handlePokedNoCooldown(npc, playerPosition) == [npc EXCEPT !.aiState = "Poked"]

\* NpcSystem.handlePoked, reached synchronously from handleNpcPoke's 'npc-event'
handlePoked(npc, playerPosition) ==
  LET backward == Vec(DivT(npc.facing[1] * pokeStepBack, 1000), 0,
                      DivT(npc.facing[3] * pokeStepBack, 1000))
      moved == AddVectors(npc.position, backward)
      position == Vec(Clamp(moved[1], -boundsMax, boundsMax), moved[2],
                      Clamp(moved[3], -boundsMax, boundsMax))
      toPlayer == SubVectors(playerPosition, position)
      direction == Normalize(Vec(toPlayer[1], 0, toPlayer[3]))
      facing == IF direction = Zero3 THEN Vec(0, 0, 1000) ELSE direction
  IN [npc EXCEPT !.reactionCooldown = pokeCooldown, !.aiState = "Poked",
                 !.position = position, !.facing = facing]

\* C27 mutant: the listener checks only that the entity exists
handleNpcEventAnyKind(ents, npcId) ==
  IF npcId \notin DOMAIN ents THEN ents
  ELSE [ents EXCEPT ![npcId] = handlePoked(ents[npcId], ents[PlayerId].position)]

\* NpcSystem.handleNpcEvent for a 'poked' event
handleNpcEvent(ents, npcId) ==
  IF npcId \notin DOMAIN ents \/ ents[npcId].type # "npc_humanoid" THEN ents
  ELSE [ents EXCEPT ![npcId] = handlePoked(ents[npcId], ents[PlayerId].position)]

\* C11 mutant: the event is dispatched but no listener handles it
handleNpcPokeUnheard(target, lg, playerPosition) ==
  [entity |-> target,
   log |-> [lg EXCEPT !.pokedEvents = @ + 1]]

\* PawInteractionSystem.handleNpcPoke: the 'npc-event' it dispatches is
\* handled by NpcSystem.handleNpcEvent / handlePoked before dispatchEvent returns
handleNpcPoke(target, lg, playerPosition) ==
  [entity |-> handlePoked(target, playerPosition),
   log |-> [lg EXCEPT !.pokedEvents = @ + 1]]

\* PawInteractionSystem.handleSwipeInteraction
handleSwipeInteraction(target, lg0, entityId, direction, ready, bodyMap, playerPosition) ==
  LET lg == [lg0 EXCEPT !.hits = @ + 1]
  IN CASE target.type = "knockable" -> handleKnock(target, lg, entityId, direction, ready, bodyMap)
       [] target.type = "scratchable" -> handleScratch(target, lg)
       [] target.type = "npc_humanoid" -> handleNpcPoke(target, lg, playerPosition)
       [] OTHER -> [entity |-> target, log |-> lg]

(***************************************************************************)
(* PawInteractionSystem.  The operators below thread a record S holding    *)
(* the state the paw update reads and writes:                              *)
(*   S.left, S.right  the two trackers       S.hit    entitiesHitThisSwipe *)
(*   S.anims          AnimationSystem.animations                           *)
(*   S.entities, S.log and the observers S.events, S.all, S.any,           *)
(*   S.overlap, S.cycle, S.swipes                                          *)
(***************************************************************************)
IdleTracker == [state |-> "Idle", timer |-> 0, hitDetected |-> FALSE]

\* the distance test of checkPawCollisions: center.distanceTo(position) < radius + 0.3
WithinReach(center, position) ==
  LengthSq(SubVectors(center, position)) < (pawRadius + hitMargin) * (pawRadius + hitMargin)

\* the non-player entities within reach of a collider centre
Overlapping(ents, center) ==
  { id \in DOMAIN ents \ {PlayerId} : WithinReach(center, ents[id].position) }

\* C6 mutant: only the nearest candidate is hit
HitNearestOnly(ents, center, hit) ==
  LET cand == { id \in Overlapping(ents, center) : isInteractable(ents[id]) /\ id \notin hit }
      dist(id) == LengthSq(SubVectors(center, ents[id].position))
  IN { id \in cand : \A o \in cand : dist(id) < dist(o) \/ (dist(id) = dist(o) /\ id = o) }

\* checkPawCollisions: the entities one call hits, every interactable within
\* reach that is not in entitiesHitThisSwipe
HitTargets(ents, center, hit) ==
  { id \in Overlapping(ents, center) : isInteractable(ents[id]) /\ id \notin hit }

\* PawInteractionSystem.checkPawCollisions
checkPawCollisions(S, side, center, ready, bodyMap) ==
  LET near == Overlapping(S.entities, center)
      hitNow == HitTargets(S.entities, center, S.hit)
      result == [id \in hitNow |->
                   handleSwipeInteraction(S.entities[id], S.log[id], id,
                       Normalize(SubVectors(S.entities[id].position, center)),
                       ready, bodyMap, S.entities[PlayerId].position)]
  IN [S EXCEPT
        !.hit = @ \cup hitNow,
        !.entities = [id \in DOMAIN @ |-> IF id \in hitNow THEN result[id].entity ELSE @[id]],
        !.log = [id \in DOMAIN @ |-> IF id \in hitNow THEN result[id].log ELSE @[id]],
        !.events[side] = [id \in DOMAIN @ |-> IF id \in hitNow THEN @[id] + 1 ELSE @[id]],
        !.all[side] = @ \cap near,
        !.any[side] = @ \cup near,
        !.overlap[side] = near]

\* C5 mutant: the tracker starts whenever the paw is not presenting
CanStartWithoutEdge(inputPressed, animating) == ~animating

\* case SwipeState.Idle: if (inputPressed && !isAnimating)
CanStart(inputPressed, animating) == inputPressed /\ ~animating

\* C4 mutant: the hit set is not cleared when an activation starts
KeptHitSet(hit) == hit

\* entitiesHitThisSwipe.clear() on the Idle -> Startup transition
ClearedHitSet(hit) == {}

\* C34 mutant: Startup ends on its first tick, whatever time has been accounted
StartupDoneAtOnce(timer) == timer >= 0

\* case SwipeState.Startup: if (swipe.timer >= this.swipeStartupTime)
StartupDone(timer) == timer >= swipeStartupTime

\* C33 mutant: the Active window ends only strictly after its duration
ActiveDoneStrict(timer) == timer > swipeStartupTime + swipeActiveTime

\* case SwipeState.Active: if (swipe.timer >= this.swipeStartupTime + this.swipeActiveTime)
ActiveDone(timer) == timer >= swipeStartupTime + swipeActiveTime

\* C2 mutant: Recovery ends only strictly after the total duration
RecoveryDoneStrict(timer) == timer > swipeStartupTime + swipeActiveTime + swipeRecoveryTime

\* case SwipeState.Recovery: if (swipe.timer >= startup + active + recovery)
RecoveryDone(timer) == timer >= swipeStartupTime + swipeActiveTime + swipeRecoveryTime

\* C35 mutant: collisions are checked only on ticks that end inside the Active window
ChecksCollisionsInsideWindow(swipe, timer) == ~swipe.hitDetected /\ ~ActiveDone(timer)

\* case SwipeState.Active: if (!swipe.hitDetected), whatever the timer has reached
ChecksCollisions(swipe, timer) == ~swipe.hitDetected

\* PawInteractionSystem.updateSwipeStateMachine
updateSwipeStateMachine(S, side, inputPressed, animating, deltaTime, center, ready, bodyMap, edges) ==
  LET swipe == S[side]
      timer == swipe.timer + deltaTime
      elapsed == S.cycle[side].elapsed + deltaTime
      visit(T, st) == [T EXCEPT !.cycle[side].trace = Append(@, st),
                                !.cycle[side].elapsed = elapsed]
      tick(T) == [T EXCEPT !.cycle[side].elapsed = elapsed]
  IN CASE swipe.state = "Idle" ->
            IF CanStart(inputPressed, animating)
            THEN [S EXCEPT
                    ![side] = [state |-> "Startup", timer |-> 0, hitDetected |-> FALSE],
                    !.hit = ClearedHitSet(@),
                    !.anims = playPawSwipe(@, side),
                    !.events[side] = [id \in DOMAIN @ |-> 0],
                    !.all[side] = DOMAIN S.entities \ {PlayerId},
                    !.any[side] = {},
                    !.cycle[side] = [trace |-> <<"Idle", "Startup">>, clears |-> 1,
                                     edges |-> edges, elapsed |-> 0,
                                     presenting |-> animating, checked |-> FALSE,
                                     overran |-> FALSE],
                    !.cycle[Other(side)].clears =
                       IF S[Other(side)].state # "Idle" THEN @ + 1 ELSE @,
                    !.swipes = @ + 1]
            ELSE S
       [] swipe.state = "Startup" ->
            IF StartupDone(timer)
            THEN visit([S EXCEPT ![side].timer = timer, ![side].state = "Active",
                                 !.cycle[side].overran = ActiveDone(timer)], "Active")
            ELSE tick([S EXCEPT ![side].timer = timer])
       [] swipe.state = "Active" ->
            LET S1 == [S EXCEPT ![side].timer = timer]
                S2 == IF ChecksCollisions(swipe, timer)
                      THEN [checkPawCollisions(S1, side, center, ready, bodyMap)
                              EXCEPT !.cycle[side].checked = TRUE]
                      ELSE S1
            IN IF ActiveDone(timer)
               THEN visit([S2 EXCEPT ![side].state = "Recovery"], "Recovery")
               ELSE tick(S2)
       [] swipe.state = "Recovery" ->
            IF RecoveryDone(timer)
            THEN visit([S EXCEPT ![side].state = "Idle", ![side].timer = 0,
                                 !.cycle[side].checked = FALSE,
                                 !.cycle[side].overran = FALSE], "Idle")
            ELSE tick([S EXCEPT ![side].timer = timer])

\* PawInteractionSystem.update: colliders, then the left tracker, then the right one
PawUpdate(S0, deltaTime, pose, lp, rp, ready, bodyMap) ==
  LET edges == (IF lp THEN 1 ELSE 0) + (IF rp THEN 1 ELSE 0)
      seen(T, side) == IF T[side].state # "Idle"
                       THEN [T EXCEPT !.cycle[side].edges = Min(2, @ + edges)]
                       ELSE T
      S1 == [seen(seen(S0, "left"), "right") EXCEPT !.overlap = [sd \in Sides |-> {}]]
      S2 == updateSwipeStateMachine(S1, "left", lp, isAnimating(S1.anims, "left"),
                                    deltaTime, pose.left, ready, bodyMap, edges)
  IN updateSwipeStateMachine(S2, "right", rp, isAnimating(S2.anims, "right"),
                             deltaTime, pose.right, ready, bodyMap, edges)

(***************************************************************************)
(* NpcSystem.  An agent is the entity record (position, facing, aiState,   *)
(* reactionCooldown) together with its record in agents:                   *)
(*   rig          "world": the rig World.createHumanoidNpc builds (torso,   *)
(*                head, leftArm, ...), which has none of the joints of     *)
(*                NpcSystem's NpcRig; "npcrig": a rig with those joints    *)
(*   moveSpeed (cm/s), avoidTimer, wanderTimer (ms), wanderTarget (<<>> =  *)
(*   null) and the observers of the last update: tickDistSq, ranSeparation,*)
(*   ranGaze, threw, the counter walked and the frame time of the run.                    *)
(* Reading a joint of a rig that lacks it (rig.spine.position, ...) throws *)
(* a TypeError, which ends the running updateNpc at that statement.        *)
(* npc.rotation.y is kept as the unit vector facing; the smoothed turns of *)
(* moveTowardsTarget and updateAvoid leave it at any of Facings.           *)
(***************************************************************************)
NpcId == "npc_1"
NpcStart == Vec(-300, npcHeight, -200)
Facings == { Vec(0, 0, 1000), Vec(-1000, 0, 0) }

\* the rest of data as World.createHumanoidNpc sets it, for a rig of the given shape
NewAgent(rig, frame) ==
  [rig |-> rig, frame |-> frame, moveSpeed |-> 0, avoidTimer |-> 0, wanderTimer |-> 0, wanderTarget |-> <<>>,
   tickDistSq |-> 0, ranSeparation |-> FALSE, ranGaze |-> FALSE, threw |-> FALSE,
   walked |-> 0, leftShoulder |-> "rest"]

\* a joint of NpcRig is read from the rig: throws unless the rig has the joints
JointThrows(rig) == rig # "npcrig"

\* THREE.MathUtils.lerp(x, y, k * deltaTime) with deltaTime in ms
Lerp(x, y, k, deltaTime) == x + DivT((y - x) * k * deltaTime, 1000)

\* squared horizontal distance (y dropped)
HDistSq(a, b) == (a[1] - b[1]) * (a[1] - b[1]) + (a[3] - b[3]) * (a[3] - b[3])

\* C20 mutant: no clamp
ClampToBoundsOff(p) == p

\* position.x / position.z clamped to this.bounds
ClampToBounds(p) == Vec(Clamp(p[1], -boundsMax, boundsMax), p[2], Clamp(p[3], -boundsMax, boundsMax))

\* the share of the missing distance by which the agent is pushed
PushAmount(dist) == (minSeparation - dist) \div 2

\* NpcSystem.applyCatNpcSeparation
applyCatNpcSeparation(npc, playerPosition) ==
  LET direction == Vec(npc.position[1] - playerPosition[1], 0, npc.position[3] - playerPosition[3])
      distSq == LengthSq(direction)
  IN IF distSq < minSeparation * minSeparation /\ distSq > 0
     THEN LET unit == Normalize(direction)
              pushAmount == PushAmount(ISqrt(distSq))
              push == Vec(DivT(unit[1] * pushAmount, 1000), 0, DivT(unit[3] * pushAmount, 1000))
          IN [npc EXCEPT !.position = ClampToBounds(AddVectors(@, push))]
     ELSE npc

\* NpcSystem.pickNewWanderTarget with the two getRandom() draws given as a
\* bearing (cos, sin in thousandths) and a radius below wanderRadius
pickNewWanderTarget(npc, draw) ==
  ClampToBounds(Vec(npc.position[1] + DivT(draw.bearing[1] * draw.radius, 1000),
                    npc.position[2],
                    npc.position[3] + DivT(draw.bearing[2] * draw.radius, 1000)))

\* NpcSystem.moveTowardsTarget
moveTowardsTarget(S, target, deltaTime, speed, turn) ==
  LET direction == SubVectors(target, S.npc.position)
  IN IF LengthSq(direction) < arriveDistance * arriveDistance
     THEN [S EXCEPT !.ag.moveSpeed = Lerp(@, 0, 5, deltaTime)]
     ELSE LET unit == Normalize(Vec(direction[1], 0, direction[3]))
              moveSpeed == Lerp(S.ag.moveSpeed, speed, 3, deltaTime)
              movement == Vec(DivT(unit[1] * moveSpeed * deltaTime, 1000000), 0,
                              DivT(unit[3] * moveSpeed * deltaTime, 1000000))
          IN [S EXCEPT !.ag.moveSpeed = moveSpeed,
                       !.npc.position = ClampToBounds(AddVectors(@, movement)),
                       !.npc.facing = turn]

\* animateWalk / animateIdle: the first joint read throws on a rig without joints
animate(S) == IF JointThrows(S.ag.rig) THEN [S EXCEPT !.ag.threw = TRUE] ELSE S

\* rig.leftShoulder.rotation.x is kept as one of three classes: "rest" (0),
\* "raised" (-PI / 3, the hand raise of handlePoked) and "between" (any
\* other angle).  animateWalk lerps it towards the arm swing of the gait:
\* the result is neither 0 nor -PI / 3
animateWalk(S) ==
  IF JointThrows(S.ag.rig) THEN animate(S)
  ELSE [S EXCEPT !.ag.leftShoulder = "between"]

\* animateIdle lerps the angle towards 0 by 5 * deltaTime <= 0.5 of the
\* way: it stays 0 if it was 0 and does not reach 0 otherwise
animateIdle(S) ==
  IF JointThrows(S.ag.rig) THEN animate(S)
  ELSE [S EXCEPT !.ag.leftShoulder = IF @ = "rest" THEN "rest" ELSE "between"]

\* handlePoked's gesture: rig.leftShoulder.rotation.x = -Math.PI / 3.  On a
\* rig without joints the read of rig.leftShoulder throws and ends the
\* listener there.
raiseHand(ag) ==
  IF JointThrows(ag.rig) THEN ag ELSE [ag EXCEPT !.leftShoulder = "raised"]

\* the callback handlePoked hands to setTimeout: r.leftShoulder.rotation.x = 0
lowerHand(ag) == [ag EXCEPT !.leftShoulder = "rest"]

\* NpcSystem.updateWander
updateWander(S, deltaTime, draw, turn) ==
  LET timer == S.ag.wanderTimer - deltaTime
      picks == timer <= 0 \/ S.ag.wanderTarget = <<>>
      S1 == IF picks
            THEN [S EXCEPT !.ag.wanderTarget = pickNewWanderTarget(S.npc, draw),
                           !.ag.wanderTimer = wanderInterval + draw.jitter]
            ELSE [S EXCEPT !.ag.wanderTimer = timer]
      S2 == moveTowardsTarget(S1, S1.ag.wanderTarget, deltaTime, walkSpeed, turn)
  IN IF S2.ag.moveSpeed > walkAnimationSpeed THEN animateWalk(S2) ELSE animateIdle(S2)

\* NpcSystem.updateAvoid
updateAvoid(S, playerPosition, deltaTime, turn) ==
  LET away == Normalize(Vec(S.npc.position[1] - playerPosition[1], 0,
                            S.npc.position[3] - playerPosition[3]))
      avoidTarget == AddVectors(S.npc.position,
                                Vec(DivT(away[1] * avoidReach, 1000), 0,
                                    DivT(away[3] * avoidReach, 1000)))
      S1 == moveTowardsTarget(S, avoidTarget, deltaTime, avoidSpeed, turn)
  IN animateWalk([S1 EXCEPT !.npc.facing = turn])

\* updateNpc: if (npc.data.reactionCooldown > 0)
InCooldown(npc) == npc.reactionCooldown > 0

\* C16 mutant: the cooldown has to fall below zero
CooldownOverStrict(cooldown) == cooldown < 0

\* updateNpc: if (npc.data.reactionCooldown <= 0), after the decrement
CooldownOver(cooldown) == cooldown <= 0

\* updateNpc: if (distToPlayer < this.personalSpaceRadius)
InPersonalSpace(distSq) == distSq < personalSpaceRadius * personalSpaceRadius

\* C14 mutant: the margin is not applied
OutOfAvoidRangeNoMargin(distSq) ==
  distSq >= personalSpaceRadius * personalSpaceRadius

\* updateNpc: if (distToPlayer >= this.personalSpaceRadius + 0.5)
OutOfAvoidRange(distSq) ==
  distSq >= (personalSpaceRadius + hysteresisMargin) * (personalSpaceRadius + hysteresisMargin)

\* C15 mutant: the delay has to be exceeded
RecoverOverStrict(avoidTimer) == avoidTimer > recoverDelay

\* updateNpc: if (npc.data.avoidTimer >= this.recoverDelay)
RecoverOver(avoidTimer) == avoidTimer >= recoverDelay

\* updateNpc: if (distToPlayer < this.personalSpaceRadius * 1.5)
InAwareness(distSq) == distSq < awarenessRadius * awarenessRadius

\* C39 mutant: an agent in Recover goes back to AvoidCat when the cat is close
TransitionFromRecoverWatchful(S, distSq, deltaTime) ==
  LET avoidTimer == S.ag.avoidTimer + deltaTime
  IN IF InPersonalSpace(distSq)
     THEN [S EXCEPT !.npc.aiState = "AvoidCat", !.ag.avoidTimer = 0]
     ELSE IF RecoverOver(avoidTimer)
          THEN [S EXCEPT !.npc.aiState = "Wander", !.ag.avoidTimer = avoidTimer]
          ELSE [S EXCEPT !.ag.avoidTimer = avoidTimer]

\* the Recover branch of the FSM transitions: the distance is not read
TransitionFromRecover(S, distSq, deltaTime) ==
  LET avoidTimer == S.ag.avoidTimer + deltaTime
  IN IF RecoverOver(avoidTimer)
     THEN [S EXCEPT !.npc.aiState = "Wander", !.ag.avoidTimer = avoidTimer]
     ELSE [S EXCEPT !.ag.avoidTimer = avoidTimer]

\* the FSM transitions of updateNpc
Transition(S, distSq, deltaTime) ==
  CASE S.npc.aiState = "Wander" ->
         IF InPersonalSpace(distSq)
         THEN [S EXCEPT !.npc.aiState = "AvoidCat", !.ag.avoidTimer = 0]
         ELSE S
    [] S.npc.aiState = "AvoidCat" ->
         IF OutOfAvoidRange(distSq)
         THEN [S EXCEPT !.npc.aiState = "Recover", !.ag.avoidTimer = 0]
         ELSE S
    [] S.npc.aiState = "Recover" -> TransitionFromRecover(S, distSq, deltaTime)
    [] OTHER -> S

\* the state behaviour of updateNpc
Behave(S, playerPosition, deltaTime, draw, turn) ==
  CASE S.npc.aiState = "Wander" -> updateWander(S, deltaTime, draw, turn)
    [] S.npc.aiState = "AvoidCat" -> updateAvoid(S, playerPosition, deltaTime, turn)
    [] S.npc.aiState = "Recover" -> animateIdle([S EXCEPT !.ag.moveSpeed = Lerp(@, 0, 5, deltaTime)])
    [] OTHER -> S

\* NpcSystem.lookAtCat is called: it reads rig.headPivot
lookAtCat(S) == animate([S EXCEPT !.ag.ranGaze = TRUE])

\* NpcSystem.updateNpc
updateNpc(npc, ag, playerPosition, deltaTime, draw, turn) ==
  LET separated == applyCatNpcSeparation(npc, playerPosition)
      distSq == HDistSq(playerPosition, separated.position)
      S0 == [npc |-> separated,
             ag |-> [ag EXCEPT !.ranSeparation = TRUE, !.ranGaze = FALSE, !.threw = FALSE,
                               !.tickDistSq = distSq]]
  IN IF InCooldown(separated)
     THEN LET cooldown == separated.reactionCooldown - deltaTime
              S1 == animateIdle([S0 EXCEPT !.npc.reactionCooldown = cooldown, !.ag.moveSpeed = 0])
          IN IF ~S1.ag.threw /\ CooldownOver(cooldown)
             THEN [S1 EXCEPT !.npc.aiState = "Wander"]
             ELSE S1
     ELSE LET S2 == Behave(Transition(S0, distSq, deltaTime), playerPosition, deltaTime, draw, turn)
          IN IF ~S2.ag.threw /\ InAwareness(distSq) THEN lookAtCat(S2) ELSE S2

(***************************************************************************)
(* TaskSystem.  The 'task-event' and 'award-points' events the resolver    *)
(* dispatches are handled by the TaskSystem's listeners before             *)
(* dispatchEvent returns.                                                  *)
(***************************************************************************)
TaskIds == {"knock_table_items", "scratch_couch", "scratch_post", "knock_all_items"}

\* a task of TaskSystem.initializeTasks
NewTask(type, required) ==
  [type |-> type, required |-> required, progress |-> 0, completed |-> FALSE]

\* TaskSystem.initializeTasks
initializeTasks ==
  [id \in TaskIds |->
     CASE id = "knock_table_items" -> NewTask("knock", 5)
       [] id = "scratch_couch" -> NewTask("scratch_complete", 1)
       [] id = "scratch_post" -> NewTask("scratch_complete", 1)
       [] id = "knock_all_items" -> NewTask("knock", 10)]

\* handleTaskEvent's guard: if (task.type === eventType && !task.completed)
TaskAdvances(task, eventType) == task.type = eventType /\ ~task.completed

\* the loop body of TaskSystem.handleTaskEvent for one task
advanceTask(task, eventType) ==
  IF TaskAdvances(task, eventType)
  THEN [task EXCEPT !.progress = @ + 1, !.completed = task.progress + 1 >= task.required]
  ELSE task

\* TaskSystem.handleTaskEvent: the target of the event is not read
handleTaskEvent(tks, eventType) ==
  [id \in DOMAIN tks |-> advanceTask(tks[id], eventType)]

\* n task events of one type
RECURSIVE handleTaskEvents(_, _, _)
handleTaskEvents(tks, eventType, n) ==
  IF n = 0 THEN tks ELSE handleTaskEvents(handleTaskEvent(tks, eventType), eventType, n - 1)

RECURSIVE SumOver(_, _)
SumOver(f, ids) ==
  IF ids = {} THEN 0
  ELSE LET id == CHOOSE i \in ids : TRUE IN f[id] + SumOver(f, ids \ {id})

\* the task events of a type the resolver dispatched while it took the log from lg0 to lg1
KnockEvents(lg0, lg1) ==
  SumOver([id \in DOMAIN lg1 |-> lg1[id].knockEvents - lg0[id].knockEvents], DOMAIN lg1)
ScratchCompleteEvents(lg0, lg1) ==
  SumOver([id \in DOMAIN lg1 |-> lg1[id].scratchCompleteEvents - lg0[id].scratchCompleteEvents],
          DOMAIN lg1)

\* the tasks after the events the resolver dispatched while it took the log
\* from lg0 to lg1 (tasks of different types do not affect each other)
ForwardTaskEvents(tks, lg0, lg1) ==
  handleTaskEvents(handleTaskEvents(tks, "knock", KnockEvents(lg0, lg1)),
                   "scratch_complete", ScratchCompleteEvents(lg0, lg1))

\* the tasks a run of events completes
Completions(tks0, tks1) ==
  Cardinality({id \in DOMAIN tks1 : tks1[id].completed /\ ~tks0[id].completed})

\* handleScratch's awardPoints(1) calls: the hits that left the progress below scratchMax
ScratchesBelowMax(e0, e1) ==
  (Min(e1.scratchProgress, scratchMax - scratchIncrement)
     - Min(e0.scratchProgress, scratchMax - scratchIncrement)) \div scratchIncrement

\* TaskSystem.addScore over the 'award-points' events and the task bonuses
\* of the same run of the resolver
ForwardPoints(tks, sc, ents0, ents1, lg0, lg1) ==
  sc + knockPoints * KnockEvents(lg0, lg1)
     + scratchCompletePoints * ScratchCompleteEvents(lg0, lg1)
     + scratchPoints * SumOver([id \in DOMAIN lg1 |-> ScratchesBelowMax(ents0[id], ents1[id])],
                               DOMAIN lg1)
     + taskBonus * Completions(tks, ForwardTaskEvents(tks, lg0, lg1))

(***************************************************************************)
(* utils/rng: SeededRNG (Park-Miller) and the global instance.             *)
(***************************************************************************)
\* JavaScript's % on integers: the result takes the sign of the dividend
Remainder(a, m) == IF a >= 0 THEN a % m ELSE -((-a) % m)

\* (a * lcgMultiplier) % lcgModulus for 0 <= a < lcgModulus.  The source
\* multiplies in double precision, where the product (below 2^53) is exact;
\* here the same residue is computed within 32 bits by Schrage's
\* decomposition lcgModulus = lcgMultiplier * q + r.
MulMod(a) ==
  LET q == lcgModulus \div lcgMultiplier
      r == lcgModulus % lcgMultiplier
      t == lcgMultiplier * (a % q) - r * (a \div q)
  IN IF t < 0 THEN t + lcgModulus ELSE t

\* the seed kept by new SeededRNG(seed)
SeededRNG(seed) ==
  LET s == Remainder(seed, lcgModulus)
  IN IF s <= 0 THEN s + (lcgModulus - 1) ELSE s

\* SeededRNG.random: the new seed; the result is (seed - 1) / (lcgModulus - 1)
random(seed) == MulMod(seed)

\* no initRNG call was made: getRandom() uses Math.random
NoRNG == [set |-> FALSE, seed |-> 0, calls |-> 0, numerator |-> 0]

(***************************************************************************)
(* Actions.                                                                *)
(***************************************************************************)
physicsVars == <<initialized, rapierWorld, initPending, entityBodyMap, entityColliderMap>>
inputVars == <<keys, previousKeys, tapTimers, presses>>
taskVars == <<tasks, score>>
swipeVars == <<leftSwipe, rightSwipe, entitiesHitThisSwipe, leftPawCollider, rightPawCollider,
               animations, leftPawPressed, rightPawPressed, swipeEvents, inRangeAll,
               inRangeAny, pawOverlap, cycle, swipes>>

\* one frame of Game.animate: the input flags and the player's pose as the
\* input and player systems leave them, then animation.update, then
\* pawInteraction.update
Animate(deltaTime, pose, lp, rp) ==
  LET S0 == [left |-> leftSwipe, right |-> rightSwipe, hit |-> entitiesHitThisSwipe,
             anims |-> AnimationUpdate(animations, deltaTime),
             entities |-> [entities EXCEPT ![PlayerId].position = pose.position],
             log |-> log, events |-> swipeEvents, all |-> inRangeAll, any |-> inRangeAny,
             overlap |-> pawOverlap, cycle |-> cycle, swipes |-> swipes]
  IN \E S \in {PawUpdate(S0, deltaTime, pose, lp, rp, isReady, entityBodyMap)} :
     /\ S.swipes <= MaxSwipes
     /\ leftPawPressed' = lp
     /\ rightPawPressed' = rp
     /\ leftPawCollider' = pose.left
     /\ rightPawCollider' = pose.right
     /\ leftSwipe' = S.left
     /\ rightSwipe' = S.right
     /\ entitiesHitThisSwipe' = S.hit
     /\ animations' = S.anims
     /\ entities' = S.entities
     /\ log' = S.log
     /\ swipeEvents' = S.events
     /\ inRangeAll' = S.all
     /\ inRangeAny' = S.any
     /\ pawOverlap' = S.overlap
     /\ cycle' = S.cycle
     /\ swipes' = S.swipes
     /\ rigidBodies' = ForwardImpulses(entityBodyMap, rigidBodies, log, S.log)
     /\ IF S.log = log
        THEN UNCHANGED taskVars
        ELSE /\ tasks' = ForwardTaskEvents(tasks, log, S.log)
             /\ score' = ForwardPoints(tasks, score, S0.entities, S.entities, log, S.log)
     /\ UNCHANGED physicsVars
     /\ UNCHANGED inputVars
     /\ UNCHANGED <<lastCall, timeouts, agents, globalRNG>>

\* one pass of the loop body of checkPawCollisions for an entity the paw
\* reaches: the hit is handed to handleSwipeInteraction
Hit(entityId, center) ==
  /\ entityId \in DOMAIN entities \ {PlayerId}
  /\ isInteractable(entities[entityId])
  /\ WithinReach(center, entities[entityId].position)
  /\ log[entityId].hits < MaxHits
  /\ \E r \in {handleSwipeInteraction(entities[entityId], log[entityId], entityId,
                   Normalize(SubVectors(entities[entityId].position, center)),
                   isReady, entityBodyMap, entities[PlayerId].position)} :
       /\ entities' = [entities EXCEPT ![entityId] = r.entity]
       /\ log' = [log EXCEPT ![entityId] = r.log]
       /\ rigidBodies' = ForwardImpulses(entityBodyMap, rigidBodies, log,
                                         [log EXCEPT ![entityId] = r.log])
       /\ tasks' = ForwardTaskEvents(tasks, log, [log EXCEPT ![entityId] = r.log])
       /\ score' = ForwardPoints(tasks, score, entities,
                                [entities EXCEPT ![entityId] = r.entity],
                                log, [log EXCEPT ![entityId] = r.log])
  /\ IF entities[entityId].type = "npc_humanoid"
     THEN /\ agents' = [agents EXCEPT ![entityId] = raiseHand(@)]
          /\ timeouts' = [timeouts EXCEPT ![entityId] =
                            IF JointThrows(agents[entityId].rig) THEN @ ELSE @ + 1]
     ELSE UNCHANGED <<timeouts, agents>>
  /\ UNCHANGED physicsVars
  /\ UNCHANGED swipeVars
  /\ UNCHANGED inputVars
  /\ UNCHANGED <<lastCall, globalRNG>>

\* PhysicsSystem.initializeAsync: initRapier() resolved
InitializeResolve ==
  /\ initPending
  /\ initPending' = FALSE
  /\ rapierWorld' = "world"
  /\ initialized' = TRUE
  /\ UNCHANGED <<entities, entityBodyMap, entityColliderMap, rigidBodies, lastCall, timeouts,
                 log, agents>>
  /\ UNCHANGED swipeVars
  /\ UNCHANGED inputVars
  /\ UNCHANGED taskVars
  /\ UNCHANGED globalRNG

\* PhysicsSystem.initializeAsync: initRapier() rejected, the catch branch only logs
InitializeReject ==
  /\ initPending
  /\ initPending' = FALSE
  /\ UNCHANGED <<entities, initialized, rapierWorld, entityBodyMap, entityColliderMap,
                 rigidBodies, lastCall, timeouts, log, agents>>
  /\ UNCHANGED swipeVars
  /\ UNCHANGED inputVars
  /\ UNCHANGED taskVars
  /\ UNCHANGED globalRNG

\* a builder creates a body of the given type at the given pose and hands it
\* to PhysicsSystem.registerRigidBody, all behind the builder's
\* if (physics.isReady())
RegisterBody(id, bodyType, position, rotation) ==
  /\ isReady
  /\ id \notin DOMAIN entityBodyMap
  /\ entityBodyMap' =
       [i \in DOMAIN entityBodyMap \cup {id} |->
          IF i = id THEN bodyType ELSE entityBodyMap[i]]
  /\ entityColliderMap' =
       [i \in DOMAIN entityColliderMap \cup {id} |->
          IF i = id THEN "collider" ELSE entityColliderMap[i]]
  /\ rigidBodies' =
       [i \in DOMAIN rigidBodies \cup {id} |->
          IF i = id THEN NewBody(position, rotation) ELSE rigidBodies[i]]
  /\ UNCHANGED <<entities, initialized, rapierWorld, initPending, lastCall, timeouts, log,
                 agents>>
  /\ UNCHANGED swipeVars
  /\ UNCHANGED inputVars
  /\ UNCHANGED taskVars
  /\ UNCHANGED globalRNG

\* a scene builder attaches a body to a prop: a dynamic one to a knockable,
\* a fixed one otherwise
RegisterRigidBody(entityId) ==
  /\ entityId \in DOMAIN entities
  /\ entities[entityId].type \in {"knockable", "scratchable"}
  /\ RegisterBody(entityId,
                  IF entities[entityId].type = "knockable" THEN "dynamic" ELSE "fixed",
                  entities[entityId].position, entities[entityId].facing)

\* where the player system leaves the cat before NpcSystem.update, relative
\* to the agent: 30 cm from it, 64 cm (a paw can reach the agent from there),
\* 200 cm and 300 cm
SpotOffsets == { Vec(30, 0, 0), Vec(-50, 0, -40), Vec(200, 0, 0), Vec(0, 0, 300) }

PlayerSpots(npcPosition) == { Vec(npcPosition[1] + o[1], 0, npcPosition[3] + o[3]) : o \in SpotOffsets }

\* the getRandom() draws of updateWander: the bearing (cos, sin in thousandths)
\* and the radius of the new target, and the extra time on the wander timer
Draws ==
  { [bearing |-> <<-1000, 0>>, radius |-> 450, jitter |-> 0],
    [bearing |-> <<0, 1000>>, radius |-> 200, jitter |-> 1000],
    [bearing |-> <<707, -707>>, radius |-> 60, jitter |-> 1950] }

\* the draws an update can consume: updateWander runs only outside the
\* cooldown and from Wander or from a Recover that ends in this update
DrawsFor(npc) ==
  IF ~InCooldown(npc) /\ npc.aiState \in {"Wander", "Recover"} THEN Draws
  ELSE { [bearing |-> <<0, 0>>, radius |-> 0, jitter |-> 0] }

\* the headings a smoothed turn can leave: none is made during the cooldown
\* or without an FSM state
TurnsFor(npc) ==
  IF ~InCooldown(npc) /\ npc.aiState \in {"Wander", "AvoidCat", "Recover"} THEN Facings
  ELSE { npc.facing }

\* the update ran updateWander or updateAvoid, or displaced the agent
Walks(npc, updated) ==
  \/ ~InCooldown(npc) /\ updated.aiState \in {"Wander", "AvoidCat"}
  \/ updated.position # npc.position

\* one frame of Game.animate up to npc.update: the player system has placed
\* the cat, then NpcSystem.update runs updateNpc on the agent
NpcTick(deltaTime, playerPosition, draw, turn) ==
  /\ NpcId \in DOMAIN agents
  /\ deltaTime = agents[NpcId].frame
  /\ \E r \in {updateNpc(entities[NpcId], agents[NpcId], playerPosition, deltaTime, draw, turn)} :
       \E walked \in {agents[NpcId].walked +
                         (IF Walks(entities[NpcId], r.npc) THEN 1 ELSE 0)} :
         /\ walked <= MaxWalk
         /\ entities' = [entities EXCEPT ![PlayerId].position = playerPosition, ![NpcId] = r.npc]
         /\ agents' = [agents EXCEPT ![NpcId] = [r.ag EXCEPT !.walked = walked]]
  /\ UNCHANGED <<log, rigidBodies, lastCall, timeouts>>
  /\ UNCHANGED physicsVars
  /\ UNCHANGED swipeVars
  /\ UNCHANGED inputVars
  /\ UNCHANGED taskVars
  /\ UNCHANGED globalRNG

\* no call observed yet
NoCall == [op |-> "none", arg |-> <<>>, threw |-> FALSE, result |-> <<>>]

\* the key of the side has not gone down yet, no update has reported a press
NoPress == [phase |-> "idle", reported |-> 0]

NoCycle == [trace |-> <<"Idle">>, clears |-> 0, edges |-> 0, elapsed |-> 0,
            presenting |-> FALSE, checked |-> FALSE, overran |-> FALSE]

\* the state after construction of the systems and World.initialize, for
\* the given entity store and agent data
InitStore(ents, ags) ==
  /\ entities = ents
  /\ agents = ags
  /\ leftSwipe = IdleTracker
  /\ rightSwipe = IdleTracker
  /\ entitiesHitThisSwipe = {}
  /\ leftPawCollider = <<>>
  /\ rightPawCollider = <<>>
  /\ animations = <<>>
  /\ leftPawPressed = FALSE
  /\ rightPawPressed = FALSE
  /\ initialized = FALSE
  /\ rapierWorld = "null"
  /\ initPending = TRUE
  /\ entityBodyMap = <<>>
  /\ entityColliderMap = <<>>
  /\ rigidBodies = <<>>
  /\ lastCall = NoCall
  /\ keys = {}
  /\ previousKeys = {}
  /\ tapTimers = <<>>
  /\ presses = [sd \in Sides |-> NoPress]
  /\ timeouts = [id \in DOMAIN ags |-> 0]
  /\ tasks = initializeTasks
  /\ score = 0
  /\ globalRNG = NoRNG
  /\ log = [id \in DOMAIN ents |-> NewLog]
  /\ swipeEvents = [sd \in Sides |-> [id \in DOMAIN ents |-> 0]]
  /\ inRangeAll = [sd \in Sides |-> {}]
  /\ inRangeAny = [sd \in Sides |-> {}]
  /\ pawOverlap = [sd \in Sides |-> {}]
  /\ cycle = [sd \in Sides |-> NoCycle]
  /\ swipes = 0

\* a scene holding the player, the floor and two props of the given kinds
InitScene(kinds) ==
  InitStore([id \in StoreIds |->
               CASE id = PlayerId -> NewEntity("player", Vec(0, 0, 0))
                 [] id = FloorId -> NewEntity("floor", PropPosition(id))
                 [] OTHER -> NewEntity(kinds[id], PropPosition(id))],
            <<>>)

\* the scenes: the kinds of the two props.  No scene holds an npc_humanoid,
\* so the npc.update of a frame iterates over nothing in Spec and SpecHits.
Scenes ==
  { [prop_a |-> "knockable", prop_b |-> "scratchable"],
    [prop_a |-> "scratchable", prop_b |-> "pickupable"] }

Init == \E kinds \in Scenes : InitScene(kinds)

(***************************************************************************)
(* Spec: the frames of the game loop with the backend initialisation       *)
(* settling at any time.                                                   *)
(***************************************************************************)
Next ==
  \/ \E deltaTime \in DeltaTimes, pose \in Poses, lp \in BOOLEAN, rp \in BOOLEAN :
       Animate(deltaTime, pose, lp, rp)
  \/ InitializeResolve

Spec == Init /\ [][Next]_vars

(***************************************************************************)
(* SpecHits: sequences of hits handed to the interaction resolver, with    *)
(* the backend initialisation and the registration of bodies interleaved.  *)
(***************************************************************************)
PawCenters == { p.left : p \in Poses } \cup { p.right : p \in Poses }

NextHits ==
  \/ \E entityId \in PropIds, center \in PawCenters : Hit(entityId, center)
  \/ InitializeResolve
  \/ InitializeReject
  \/ \E entityId \in PropIds : RegisterRigidBody(entityId)

SpecHits == Init /\ [][NextHits]_vars

(***************************************************************************)
(* SpecNpc: the scene of World.initialize reduced to the cat and the one   *)
(* humanoid agent, npc_1.  Frames run NpcSystem.update; a swipe that       *)
(* reaches the agent is handed to the interaction resolver later in the    *)
(* same frame.  The agent carries either the rig World.createHumanoidNpc   *)
(* builds or a rig with the joints of NpcRig (an entity registered through *)
(* World.addEntity that satisfies the interface NpcSystem declares);       *)
(* neither is given an aiState at creation.  With the World-built rig an   *)
(* update throws whenever it animates or aims the head, the exception      *)
(* leaves Game.animate, and the rest of that frame does not run.           *)
(***************************************************************************)
Rigs == {"world", "npcrig"}

\* the frame times of a run: the capped delta of a slow frame, and one that
\* divides neither the poke cooldown nor the recover delay
FrameTimes == { maxDeltaTime, maxDeltaTime - 10 }

\* where the agent stands at the start: where World.initialize puts npc_1,
\* and for an agent registered through World.addEntity also 10 cm from the
\* western bound
StartsFor(rig) ==
  IF rig = "world" THEN {NpcStart} ELSE {NpcStart, Vec(10 - boundsMax, npcHeight, -200)}

InitNpc ==
  \E rig \in Rigs, frame \in FrameTimes :
  \E start \in StartsFor(rig) :
    InitStore([id \in {PlayerId, NpcId} |->
                 IF id = PlayerId THEN NewEntity("player", Vec(0, 0, 0))
                 ELSE NewEntity("npc_humanoid", start)],
              [id \in {NpcId} |-> NewAgent(rig, frame)])

\* the paws relative to the body, as in Poses
PawOffsets == UNION { { SubVectors(p.left, p.position), SubVectors(p.right, p.position) } : p \in Poses }

\* the paw collider centres of the frame, for a cat that has jumped to the
\* height of the agent's origin
PokeCenters ==
  { Vec(entities[PlayerId].position[1] + o[1], entities[NpcId].position[2],
        entities[PlayerId].position[3] + o[3]) : o \in PawOffsets }

\* pawInteraction.update of the frame hands a hit on the agent to the
\* resolver: the frame got there only if npc.update did not throw
SwipePoke(center) ==
  /\ ~agents[NpcId].threw
  /\ log[NpcId].pokedEvents < MaxPokes
  /\ Hit(NpcId, center)

NextNpc ==
  \/ \E deltaTime \in FrameTimes, playerPosition \in PlayerSpots(entities[NpcId].position) :
       \E draw \in DrawsFor(entities[NpcId]), turn \in TurnsFor(entities[NpcId]) :
         NpcTick(deltaTime, playerPosition, draw, turn)
  \/ \E center \in PokeCenters : SwipePoke(center)

SpecNpc == InitNpc /\ [][NextNpc]_vars

(***************************************************************************)
(* SpecTimer: the frames and pokes of SpecNpc for the agent with the       *)
(* joints of NpcRig, together with the browser's timer task: a callback    *)
(* that handlePoked handed to setTimeout runs between two frames, 500 ms   *)
(* of wall-clock time after the poke, however many frames ran meanwhile.   *)
(***************************************************************************)
\* the timer task runs the oldest pending callback of handlePoked
HandRaiseTimeout(npcId) ==
  /\ timeouts[npcId] > 0
  /\ timeouts' = [timeouts EXCEPT ![npcId] = @ - 1]
  /\ agents' = [agents EXCEPT ![npcId] = lowerHand(@)]
  /\ UNCHANGED <<entities, log, rigidBodies, lastCall>>
  /\ UNCHANGED physicsVars
  /\ UNCHANGED swipeVars
  /\ UNCHANGED inputVars
  /\ UNCHANGED taskVars
  /\ UNCHANGED globalRNG

InitTimer ==
  InitStore([id \in {PlayerId, NpcId} |->
               IF id = PlayerId THEN NewEntity("player", Vec(0, 0, 0))
               ELSE NewEntity("npc_humanoid", NpcStart)],
            [id \in {NpcId} |-> NewAgent("npcrig", maxDeltaTime)])

NextTimer ==
  \/ \E deltaTime \in FrameTimes, playerPosition \in PlayerSpots(entities[NpcId].position) :
       \E draw \in DrawsFor(entities[NpcId]), turn \in TurnsFor(entities[NpcId]) :
         NpcTick(deltaTime, playerPosition, draw, turn)
  \/ \E center \in PokeCenters : SwipePoke(center)
  \/ HandRaiseTimeout(NpcId)

SpecTimer == InitTimer /\ [][NextTimer]_vars

(***************************************************************************)
(* SpecPhysics: the physics layer as PhysicsSystem.ts declares it, built   *)
(* with the World whose entities it writes.  The backend initialisation    *)
(* settles either way; once it is ready, content code registers bodies for *)
(* the cat, the props and the floor's collider; frames run                 *)
(* PhysicsSystem.update; entities leave the store through                  *)
(* World.removeEntity; and the layer's calls (applyImpulse, raycast,       *)
(* overlapSphere, removeRigidBody), the knock resolution and the 'npc-     *)
(* event' listener are exercised with ids that are registered, not         *)
(* registered, or in no store at all.                                      *)
(***************************************************************************)
\* an id nothing was ever created under
GhostId == "ghost"

\* the ids the calls are made with: a prop with a dynamic body (which may
\* have left the store), a prop with a fixed body, and the unknown id
CallIds == PropIds \cup {GhostId}

\* the centres of the overlap queries: 5 cm from where the scene puts prop_a,
\* and a paw centre far from every body
QueryCenters == { Vec(105, 0, 0), Vec(0, 0, 15) }

\* what one rapierWorld.step() does to the dynamic bodies
Motions ==
  { [d |-> Vec(0, -10, 0), rotation |-> Vec(0, 0, 1000)],
    [d |-> Vec(20, 0, 0), rotation |-> Vec(-1000, 0, 0)] }

\* the origin heights of the ground rays, in cm: below the floor, on it, the
\* cat's standing height, between the fallback threshold and the ray's
\* reach, and in mid-jump
RayHeights == {-30, 0, 50, 58, 100}

\* the impulses content code applies
Impulses == { Vec(5000, 2500, 0) }

\* createCapsuleCollider: the cat's dynamic capsule
RegisterPlayerBody ==
  /\ PlayerId \in DOMAIN entities
  /\ RegisterBody(PlayerId, "dynamic", entities[PlayerId].position, entities[PlayerId].facing)

\* buildHouse: the floor's fixed box, registered under 'floor_collider'
RegisterFloorCollider ==
  RegisterBody(FloorColliderId, "fixed", Home(FloorColliderId), Vec(0, 0, 1000))

Called(op, arg, threw, result) == [op |-> op, arg |-> arg, threw |-> threw, result |-> result]

\* PhysicsSystem.update.  this.rapierWorld.step() on a null world is a
\* TypeError that leaves update.
PhysicsUpdate(motion) ==
  /\ IF UpdateReturnsEarly(rapierWorld, initialized)
     THEN /\ lastCall' = Called("update", <<>>, FALSE, <<>>)
          /\ UNCHANGED <<entities, rigidBodies>>
     ELSE IF rapierWorld = "null"
     THEN /\ lastCall' = Called("update", <<>>, TRUE, <<>>)
          /\ UNCHANGED <<entities, rigidBodies>>
     ELSE \E stepped \in {Step(entityBodyMap, rigidBodies, motion)} :
            /\ lastCall' = Called("update", <<>>, FALSE, <<>>)
            /\ rigidBodies' = stepped
            /\ entities' = SyncEntities(entities, entityBodyMap, stepped)
  /\ UNCHANGED physicsVars
  /\ UNCHANGED swipeVars
  /\ UNCHANGED inputVars
  /\ UNCHANGED taskVars
  /\ UNCHANGED globalRNG
  /\ UNCHANGED <<timeouts, log, agents>>

\* World.removeEntity
RemoveEntity(id) ==
  /\ id \in DOMAIN entities
  /\ entities' = [i \in DOMAIN entities \ {id} |-> entities[i]]
  /\ UNCHANGED physicsVars
  /\ UNCHANGED swipeVars
  /\ UNCHANGED inputVars
  /\ UNCHANGED taskVars
  /\ UNCHANGED globalRNG
  /\ UNCHANGED <<rigidBodies, lastCall, timeouts, log, agents>>

\* PhysicsSystem.removeRigidBody
RemoveRigidBody(entityId) ==
  /\ lastCall' = Called("removeRigidBody", entityId, FALSE, <<>>)
  /\ rigidBodies' =
       IF rapierWorld # "null" /\ entityId \in DOMAIN entityBodyMap
       THEN [i \in DOMAIN rigidBodies \ {entityId} |-> rigidBodies[i]]
       ELSE rigidBodies
  /\ entityBodyMap' = [i \in DOMAIN entityBodyMap \ {entityId} |-> entityBodyMap[i]]
  /\ entityColliderMap' = [i \in DOMAIN entityColliderMap \ {entityId} |-> entityColliderMap[i]]
  /\ UNCHANGED <<entities, initialized, rapierWorld, initPending, timeouts, log, agents>>
  /\ UNCHANGED swipeVars
  /\ UNCHANGED inputVars
  /\ UNCHANGED taskVars
  /\ UNCHANGED globalRNG

\* a call of PhysicsSystem.applyImpulse
ApplyImpulse(entityId, impulse) ==
  /\ entityId \in DOMAIN rigidBodies => rigidBodies[entityId].impulses < MaxImpulses
  /\ lastCall' = Called("applyImpulse", entityId, FALSE, <<>>)
  /\ rigidBodies' = applyImpulse(entityBodyMap, rigidBodies, entityId, impulse)
  /\ UNCHANGED physicsVars
  /\ UNCHANGED swipeVars
  /\ UNCHANGED inputVars
  /\ UNCHANGED taskVars
  /\ UNCHANGED globalRNG
  /\ UNCHANGED <<entities, timeouts, log, agents>>

\* a call of PhysicsSystem.raycast with a ray along -Y
Raycast(originY, maxDistance, queryFails) ==
  /\ lastCall' = Called("raycast", <<originY, maxDistance, queryFails>>, FALSE,
                        raycast(rapierWorld, rigidBodies, originY, maxDistance, queryFails))
  /\ UNCHANGED physicsVars
  /\ UNCHANGED swipeVars
  /\ UNCHANGED inputVars
  /\ UNCHANGED taskVars
  /\ UNCHANGED globalRNG
  /\ UNCHANGED <<entities, rigidBodies, timeouts, log, agents>>

\* a call of PhysicsSystem.overlapSphere
OverlapSphere(center, queryFails) ==
  /\ \E r \in {overlapSphere(rapierWorld, rigidBodies, center, pawRadius, queryFails)} :
       lastCall' = Called("overlapSphere", <<center, queryFails>>, r.threw, r.result)
  /\ UNCHANGED physicsVars
  /\ UNCHANGED swipeVars
  /\ UNCHANGED inputVars
  /\ UNCHANGED taskVars
  /\ UNCHANGED globalRNG
  /\ UNCHANGED <<entities, rigidBodies, timeouts, log, agents>>

\* the 'npc-event' listener of NpcSystem runs for a 'poked' event
NpcEvent(npcId) ==
  /\ lastCall' = Called("npc-event", npcId, FALSE, <<>>)
  /\ entities' = handleNpcEvent(entities, npcId)
  /\ UNCHANGED physicsVars
  /\ UNCHANGED swipeVars
  /\ UNCHANGED inputVars
  /\ UNCHANGED taskVars
  /\ UNCHANGED globalRNG
  /\ UNCHANGED <<rigidBodies, timeouts, log, agents>>

\* a swipe reaches a prop: the hit goes through the knock or scratch resolution
PropHit(entityId, center) ==
  /\ log[entityId].hits < MaxKnocks
  /\ Hit(entityId, center)

InitPhysics == InitScene([prop_a |-> "knockable", prop_b |-> "scratchable"])

NextPhysics ==
  \/ InitializeResolve
  \/ InitializeReject
  \/ \E entityId \in PropIds : RegisterRigidBody(entityId)
  \/ RegisterPlayerBody
  \/ RegisterFloorCollider
  \/ \E motion \in Motions : PhysicsUpdate(motion)
  \/ RemoveEntity("prop_a")
  \/ \E entityId \in CallIds : RemoveRigidBody(entityId)
  \/ \E entityId \in CallIds, impulse \in Impulses : ApplyImpulse(entityId, impulse)
  \/ \E originY \in RayHeights, queryFails \in BOOLEAN :
       Raycast(originY, groundRayDistance, queryFails)
  \/ \E center \in QueryCenters, queryFails \in BOOLEAN : OverlapSphere(center, queryFails)
  \/ \E npcId \in CallIds : NpcEvent(npcId)
  \/ \E center \in PawCenters : PropHit("prop_a", center)

SpecPhysics == InitPhysics /\ [][NextPhysics]_vars

(***************************************************************************)
(* SpecInput: the keyboard listeners of InputSystem and its per-frame      *)
(* update.  On each side the paw key goes through one press: a keydown,    *)
(* any number of auto-repeated keydowns while it is held, one keyup; the   *)
(* frames' updates fall anywhere in between and after.                     *)
(***************************************************************************)
\* the paw key of a side, as e.key.toLowerCase()
PawKey(side) == IF side = "left" THEN "q" ELSE "e"

\* the first loop of InputSystem.update: decay the tap buffers
DecayTapTimers(timers, deltaTime) ==
  [k \in { j \in DOMAIN timers : timers[j] - deltaTime > 0 } |-> timers[k] - deltaTime]

\* leftPawNow / rightPawNow: the key is down or its tap buffer is running
PawNow(ks, timers, k) == k \in ks \/ (k \in DOMAIN timers /\ timers[k] > 0)

\* state.leftPawPressed / state.rightPawPressed
PawPressed(ks, prev, timers, k) == PawNow(ks, timers, k) /\ k \notin prev

\* InputSystem.onKeyDown for the paw key of the side
KeyDown(side) ==
  /\ presses[side].phase \in {"idle", "down"}
  /\ keys' = keys \cup {PawKey(side)}
  /\ tapTimers' = [k \in DOMAIN tapTimers \cup {PawKey(side)} |->
                     IF k = PawKey(side) THEN tapHoldSeconds ELSE tapTimers[k]]
  /\ presses' = [presses EXCEPT ![side].phase = "down"]
  /\ UNCHANGED <<previousKeys, leftPawPressed, rightPawPressed>>
  /\ UNCHANGED <<entities, leftSwipe, rightSwipe, entitiesHitThisSwipe, leftPawCollider,
                 rightPawCollider, animations, swipeEvents, inRangeAll, inRangeAny,
                 pawOverlap, cycle, swipes, rigidBodies, lastCall, timeouts, log, agents>>
  /\ UNCHANGED physicsVars
  /\ UNCHANGED taskVars
  /\ UNCHANGED globalRNG

\* InputSystem.onKeyUp for the paw key of the side
KeyUp(side) ==
  /\ presses[side].phase = "down"
  /\ keys' = keys \ {PawKey(side)}
  /\ presses' = [presses EXCEPT ![side].phase = "up"]
  /\ UNCHANGED <<previousKeys, tapTimers, leftPawPressed, rightPawPressed>>
  /\ UNCHANGED <<entities, leftSwipe, rightSwipe, entitiesHitThisSwipe, leftPawCollider,
                 rightPawCollider, animations, swipeEvents, inRangeAll, inRangeAny,
                 pawOverlap, cycle, swipes, rigidBodies, lastCall, timeouts, log, agents>>
  /\ UNCHANGED physicsVars
  /\ UNCHANGED taskVars
  /\ UNCHANGED globalRNG

\* InputSystem.update
InputUpdate(deltaTime) ==
  \E timers \in {DecayTapTimers(tapTimers, deltaTime)} :
    /\ tapTimers' = timers
    /\ leftPawPressed' = PawPressed(keys, previousKeys, timers, PawKey("left"))
    /\ rightPawPressed' = PawPressed(keys, previousKeys, timers, PawKey("right"))
    /\ previousKeys' = keys
    /\ presses' = [sd \in Sides |->
                     IF PawPressed(keys, previousKeys, timers, PawKey(sd))
                     THEN [presses[sd] EXCEPT !.reported = @ + 1]
                     ELSE presses[sd]]
    /\ UNCHANGED keys
    /\ UNCHANGED <<entities, leftSwipe, rightSwipe, entitiesHitThisSwipe, leftPawCollider,
                   rightPawCollider, animations, swipeEvents, inRangeAll, inRangeAny,
                   pawOverlap, cycle, swipes, rigidBodies, lastCall, timeouts, log, agents>>
    /\ UNCHANGED physicsVars
    /\ UNCHANGED taskVars
    /\ UNCHANGED globalRNG

NextInput ==
  \/ \E side \in Sides : KeyDown(side)
  \/ \E side \in Sides : KeyUp(side)
  \/ \E deltaTime \in DeltaTimes : InputUpdate(deltaTime)

SpecInput == InitPhysics /\ [][NextInput]_vars

(***************************************************************************)
(* SpecTasks: the two scratchable surfaces of the house, the couch         *)
(* (prop_a) and the scratching post (prop_b), scratched in any order, with *)
(* the TaskSystem listening to the events of the resolver.                 *)
(***************************************************************************)
Couch == "prop_a"
ScratchingPost == "prop_b"

InitTasks == InitScene([id \in PropIds |-> "scratchable"])

NextTasks == \E entityId \in PropIds, center \in PawCenters : Hit(entityId, center)

SpecTasks == InitTasks /\ [][NextTasks]_vars

(***************************************************************************)
(* SpecRng: test mode seeds the global generator once, then getRandom()    *)
(* is called any number of times.                                          *)
(***************************************************************************)
\* seeds at and around the ends of the residue range, and ordinary ones
Seeds == { -2147483647, -2147483646, -2147483645, -16807, -1, 0, 1, 42, 16807,
           127773, 20261101, 2147483646, 2147483647 }

\* initRNG(seed): globalRNG = new SeededRNG(seed)
InitRNG(seed) ==
  /\ ~globalRNG.set
  /\ globalRNG' = [set |-> TRUE, seed |-> SeededRNG(seed), calls |-> 0, numerator |-> 0]
  /\ UNCHANGED <<entities, lastCall, timeouts, log, rigidBodies, agents>>
  /\ UNCHANGED physicsVars
  /\ UNCHANGED swipeVars
  /\ UNCHANGED inputVars
  /\ UNCHANGED taskVars

\* getRandom() with the global generator set: globalRNG.random()
GetRandom ==
  /\ globalRNG.set
  /\ globalRNG.calls < MaxDraws
  /\ globalRNG' = [globalRNG EXCEPT !.seed = random(@), !.calls = @ + 1,
                                    !.numerator = random(globalRNG.seed) - 1]
  /\ UNCHANGED <<entities, lastCall, timeouts, log, rigidBodies, agents>>
  /\ UNCHANGED physicsVars
  /\ UNCHANGED swipeVars
  /\ UNCHANGED inputVars
  /\ UNCHANGED taskVars

NextRng ==
  \/ \E seed \in Seeds : InitRNG(seed)
  \/ GetRandom

SpecRng == InitPhysics /\ [][NextRng]_vars

(***************************************************************************)
(* SpecSwipe: the frames of the game loop with the cat standing still out  *)
(* of reach of the props, and frame times in steps of 25 ms up to the cap  *)
(* of Game.animate.                                                        *)
(***************************************************************************)
\* Math.min(clock.getDelta(), 0.1) for deltas of 25 ms, 50 ms, ...
FrameDeltas == { Min(k * 25, maxDeltaTime) : k \in 1..MaxDtQuarters }

RestPose == [position |-> Vec(0, 0, 0), left |-> Vec(0, 0, -15), right |-> Vec(0, 0, 15)]

NextSwipe ==
  \E deltaTime \in FrameDeltas, lp \in BOOLEAN, rp \in BOOLEAN :
    Animate(deltaTime, RestPose, lp, rp)

SpecSwipe == InitPhysics /\ [][NextSwipe]_vars

(***************************************************************************)
(* SpecAnyDt: the same frames with the deltaTime handed to the update      *)
(* methods as it comes, without the cap of Game.animate: up to             *)
(* MaxLongDt * 50 ms, more than the whole cycle of a swipe.                *)
(***************************************************************************)
AnyDeltas == { k * 50 : k \in 1..MaxLongDt }

NextAnyDt ==
  \E deltaTime \in AnyDeltas, lp \in BOOLEAN, rp \in BOOLEAN :
    Animate(deltaTime, RestPose, lp, rp)

SpecAnyDt == InitPhysics /\ [][NextAnyDt]_vars

(***************************************************************************)
(* Properties.                                                             *)
(***************************************************************************)
Tracker(side) == IF side = "left" THEN leftSwipe ELSE rightSwipe
Pressed(side) == IF side = "left" THEN leftPawPressed ELSE rightPawPressed
Props == StoreIds \ {PlayerId}
FullCycle == <<"Idle", "Startup", "Active", "Recovery", "Idle">>
TotalSwipeTime == swipeStartupTime + swipeActiveTime + swipeRecoveryTime
\* the side's tracker took a tick in this step
Ticked(side) == Tracker(side)' # Tracker(side)
\* the side's tracker went from Idle to Startup in this step
Started(side) == Tracker(side).state = "Idle" /\ Tracker(side)'.state = "Startup"
\* the Active window of the side's current activation is over
ActiveWindowOver(side) == Len(cycle[side].trace) >= 4
\* the entities the side's activation dispatched an event for in this step
Dispatched(side) == { id \in Props : swipeEvents'[side][id] > swipeEvents[side][id] }

\* C1: when the Active window of a side's activation is over, every
\* interactable entity that was within range of that side's paw on every
\* Active tick has received exactly one interaction event from that
\* activation, whatever the inputs of the two sides were.
C1_OneEventPerActivation ==
  \A side \in Sides : \A id \in Props :
    (ActiveWindowOver(side) /\ id \in inRangeAll[side] /\ isInteractable(entities[id]))
      => swipeEvents[side][id] = 1

C3_SidesIndependent ==
  [][\A side \in Sides :
       (Tracker(side).state = "Active" /\ Ticked(side)) =>
         Dispatched(side) =
           { id \in pawOverlap'[side] :
               isInteractable(entities[id]) /\ swipeEvents[side][id] = 0 }]_vars

\* C4 (as stated): the hit set is non-empty only while some tracker is in
\* Active or Recovery of the activation that added the entries.
C4_NonEmptyOnlyInActivation ==
  entitiesHitThisSwipe # {} =>
    \E side \in Sides :
      /\ Tracker(side).state \in {"Active", "Recovery"}
      /\ \A id \in entitiesHitThisSwipe : swipeEvents[side][id] >= 1

\* C4 (amended): the one hit set of both sides is emptied exactly when a
\* tracker goes from Idle to Startup (what remains after such a step was
\* added later in the same frame by the right tracker); in every other step
\* it keeps its entries, through Recovery and Idle, and it grows only on a
\* tick of a tracker that is Active.
C4_ClearedExactlyOnStart ==
  [][/\ Started("right") => entitiesHitThisSwipe' = {}
     /\ Started("left") => entitiesHitThisSwipe' \subseteq Dispatched("right")
     /\ (\A side \in Sides : ~Started(side)) =>
          /\ entitiesHitThisSwipe \subseteq entitiesHitThisSwipe'
          /\ entitiesHitThisSwipe' # entitiesHitThisSwipe =>
               \E side \in Sides : Tracker(side).state = "Active" /\ Ticked(side)]_vars

\* C4 witness: entries of a finished activation are still in the hit set
\* while both trackers are Idle
C4_Witness ==
  /\ entitiesHitThisSwipe # {}
  /\ leftSwipe.state = "Idle"
  /\ rightSwipe.state = "Idle"

\* C5: a side's tracker leaves Idle only in a frame whose input edge for that
\* side is set and whose presentation for that paw is not playing, and it
\* then enters Startup; a tracker in Startup, Active or Recovery advances by
\* the frame's delta along the cycle whatever the input edge is, so it is
\* never restarted before it has reached Idle.
C5_StartOnlyFromIdle ==
  [][\A side \in Sides :
       LET t == Tracker(side)
           u == Tracker(side)'
       IN /\ (t.state = "Idle" /\ u.state # "Idle") =>
               /\ u = [state |-> "Startup", timer |-> 0, hitDetected |-> FALSE]
               /\ Pressed(side)'
               /\ ~cycle'[side].presenting
               /\ ~isAnimating(animations, side)
          /\ (t.state = "Idle" /\ u.state = "Idle") => u = t
          /\ (t.state # "Idle" /\ Ticked(side)) =>
               \E deltaTime \in DeltaTimes :
                 LET timer == t.timer + deltaTime
                 IN CASE t.state = "Startup" ->
                           /\ u.timer = timer
                           /\ u.state = IF timer >= swipeStartupTime
                                        THEN "Active" ELSE "Startup"
                      [] t.state = "Active" ->
                           /\ u.timer = timer
                           /\ u.state = IF timer >= swipeStartupTime + swipeActiveTime
                                        THEN "Recovery" ELSE "Active"
                      [] t.state = "Recovery" ->
                           IF timer >= TotalSwipeTime
                           THEN u.state = "Idle" /\ u.timer = 0
                           ELSE u.state = "Recovery" /\ u.timer = timer]_vars

\* C5 witness: an input edge arrived while the tracker was in its cycle and
\* the tracker went on to Recovery
C5_Witness ==
  \E side \in Sides :
    /\ Tracker(side).state = "Recovery"
    /\ Pressed(side)
    /\ cycle[side].edges >= 2

\* the hit set as a side's collision check finds it in this step: the right
\* tracker runs after the left one, which may have cleared or extended the set
HitSetAtCheck(side) ==
  IF side = "left" THEN entitiesHitThisSwipe
  ELSE IF Started("left") THEN {}
  ELSE IF leftSwipe.state = "Active" /\ Ticked("left")
       THEN entitiesHitThisSwipe \cup
              { id \in pawOverlap'["left"] : isInteractable(entities[id]) }
       ELSE entitiesHitThisSwipe

C9_TwoPathPolicy ==
  [][\A id \in PropIds :
       (entities[id].type = "knockable" /\ log'[id].hits = log[id].hits + 1) =>
         IF isReady
         THEN /\ log'[id].applyImpulseCalls = log[id].applyImpulseCalls + 1
              /\ log'[id].lastImpulse =
                   AddVectors(MultiplyScalar(log'[id].lastDirection, impulseStrength),
                              Vec(0, impulseUp, 0))
              /\ log'[id].velocityKicks = log[id].velocityKicks
              /\ entities'[id].velocity = entities[id].velocity
         ELSE /\ log'[id].velocityKicks = log[id].velocityKicks + 1
              /\ entities'[id].velocity # entities[id].velocity
              /\ log'[id].applyImpulseCalls = log[id].applyImpulseCalls
              /\ log'[id].bodyImpulses = log[id].bodyImpulses]_vars

\* C9 witness: a knockable was hit on both paths, before and after the backend got ready
C9_Witness ==
  \E id \in PropIds :
    /\ entities[id].type = "knockable"
    /\ log[id].velocityKicks >= 1
    /\ log[id].applyImpulseCalls >= 1
    /\ log[id].bodyImpulses >= 1

\* C10: after n hits on a scratchable its progress is min(100, 5 n), so each
\* hit moves it to min(100, previous + 5), and exactly one scratch_complete
\* event has been emitted once progress has reached 100, on the 20th hit.
C10_ScratchProgress ==
  \A id \in PropIds :
    entities[id].type = "scratchable" =>
      LET full == log[id].hits * scratchIncrement >= scratchMax
      IN /\ entities[id].scratchProgress = Min(scratchMax, log[id].hits * scratchIncrement)
         /\ log[id].scratchCompleteEvents = IF full THEN 1 ELSE 0
         /\ entities[id].scratchComplete <=> full

\* C10 witness: a scratchable hit beyond the hit that completed it
C10_Witness ==
  \E id \in PropIds :
    /\ entities[id].type = "scratchable"
    /\ log[id].hits * scratchIncrement > scratchMax
    /\ entities[id].scratchProgress = scratchMax
    /\ log[id].scratchCompleteEvents = 1

(***************************************************************************)
(* The agent controller (SpecNpc).                                         *)
(***************************************************************************)
Npc == entities[NpcId]
Agent == agents[NpcId]

\* the step is a swipe hit handed to the resolver for the agent
PokeStep == log'[NpcId].hits = log[NpcId].hits + 1

\* the step is one NpcSystem.update
TickStep == log' = log

\* C11: a swipe hit on an npc_humanoid changes nothing the resolver owns
\* (no knock, scratch or impulse record, no other entity), raises one Poked
\* event for that entity, and when the hit has been handled the agent's FSM
\* is Poked and its reaction cooldown is 1.5 s.
C11_PokeHandledInTick ==
  [][PokeStep =>
       /\ log'[NpcId] = [log[NpcId] EXCEPT !.hits = @ + 1, !.pokedEvents = @ + 1]
       /\ \A f \in {"type", "velocity", "knocked", "scratchProgress", "scratchComplete"} :
            Npc'[f] = Npc[f]
       /\ \A id \in DOMAIN entities \ {NpcId} : entities'[id] = entities[id] /\ log'[id] = log[id]
       /\ Npc'.aiState = "Poked"
       /\ Npc'.reactionCooldown = pokeCooldown]_vars

C11_Witness ==
  /\ log[NpcId].pokedEvents = MaxPokes
  /\ Npc.aiState = "Poked"
  /\ Npc.reactionCooldown = pokeCooldown
  /\ Agent.rig = "npcrig"

FsmStates == {"Wander", "AvoidCat", "Recover", "Poked"}

\* the transition rules: Wander -> AvoidCat, AvoidCat -> Recover,
\* Recover -> Wander, any state -> Poked, Poked -> Wander
FsmRules ==
  { <<"Wander", "AvoidCat">>, <<"AvoidCat", "Recover">>, <<"Recover", "Wander">>,
    <<"Poked", "Wander">> } \cup { <<st, "Poked">> : st \in FsmStates }

\* C12: from creation onward the agent's fsm value is one of Wander,
\* AvoidCat, Recover, Poked, and it changes only by the transition rules.
C12_FsmStatesAndRules ==
  /\ [](Npc.aiState \in FsmStates)
  /\ [][Npc'.aiState # Npc.aiState => <<Npc.aiState, Npc'.aiState>> \in FsmRules]_vars

\* the agent wanders idly: its FSM is in Wander, or it is as the world
\* created it and has never been poked
IdleWandering == Npc.aiState = "Wander" \/ log[NpcId].pokedEvents = 0

\* C13: a tick at which the player is closer than personal_space_radius to
\* an idle-wandering agent (a never poked, freshly created one included)
\* ends with the agent in AvoidCat.
C13_AvoidInSameTick ==
  [][TickStep /\ IdleWandering /\ InPersonalSpace(Agent'.tickDistSq)
       => Npc'.aiState = "AvoidCat"]_vars

\* squared distances of 1.8 and 2.3
NearSq == personalSpaceRadius * personalSpaceRadius
LeaveSq == (personalSpaceRadius + hysteresisMargin) * (personalSpaceRadius + hysteresisMargin)

\* C14: a tick of an agent in AvoidCat leaves it in AvoidCat whenever the
\* distance is below 2.3 (in particular for 1.8 <= distance < 2.3, and
\* when the distance moves across 1.8), and takes it to Recover when the
\* distance is at least 2.3.
C14_AvoidHysteresis ==
  [][TickStep /\ Npc.aiState = "AvoidCat"
       => /\ Agent'.tickDistSq < LeaveSq => Npc'.aiState = "AvoidCat"
          /\ Agent'.tickDistSq >= LeaveSq => Npc'.aiState = "Recover"]_vars

C14_Witness ==
  /\ Npc.aiState = "AvoidCat"
  /\ Agent.tickDistSq >= NearSq
  /\ Agent.tickDistSq < LeaveSq
  /\ Agent.walked = MaxWalk

\* C15: the time an agent has spent in Recover is the sum of the tick times
\* since it entered (avoidTimer: 0 on entry, plus the frame time per tick);
\* a tick takes the agent from Recover to Wander exactly when that time
\* reaches recover_delay, so an agent still in Recover is below it.
C15_RecoverDelay ==
  /\ [](Npc.aiState = "Recover" => Agent.avoidTimer < recoverDelay)
  /\ [][TickStep =>
          /\ Npc.aiState = "AvoidCat" /\ Npc'.aiState = "Recover" => Agent'.avoidTimer = 0
          /\ Npc.aiState = "Recover" =>
                /\ Agent'.avoidTimer = Agent.avoidTimer + Agent.frame
                /\ Npc'.aiState = (IF Agent'.avoidTimer >= recoverDelay THEN "Wander" ELSE "Recover")
          /\ Npc.aiState # "Recover" => Npc'.aiState # "Wander" \/ Npc.aiState \in {"Wander", "Poked"}]_vars

C15_Witness ==
  /\ Npc.aiState = "Wander"
  /\ Agent.avoidTimer > recoverDelay
  /\ log[NpcId].pokedEvents = 1

\* C16: a poke puts the agent in Poked whatever its state and restarts the
\* cooldown at 1.5 s; every tick of a Poked agent takes the frame time off
\* it, and the agent returns to Wander in the tick where 1.5 s of tick time
\* have passed since the latest poke (cooldown used up), so an agent still
\* in Poked has time left.
C16_PokedThenWander ==
  /\ [](Npc.aiState = "Poked" => Npc.reactionCooldown > 0)
  /\ [][/\ PokeStep => Npc'.aiState = "Poked" /\ Npc'.reactionCooldown = pokeCooldown
        /\ TickStep /\ Npc.aiState = "Poked" =>
              /\ Npc'.reactionCooldown = Npc.reactionCooldown - Agent.frame
              /\ Npc'.aiState = (IF pokeCooldown - Npc'.reactionCooldown >= pokeCooldown
                                  THEN "Wander" ELSE "Poked")]_vars

C16_Witness ==
  /\ Npc.aiState = "Wander"
  /\ Npc.reactionCooldown < 0
  /\ log[NpcId].pokedEvents = MaxPokes
  /\ Agent.walked > 0

C18_MinSeparation ==
  Agent.ranSeparation => Agent.tickDistSq >= (minSeparation - 1) * (minSeparation - 1)

InBounds(p) ==
  /\ p[1] >= -boundsMax /\ p[1] <= boundsMax
  /\ p[3] >= -boundsMax /\ p[3] <= boundsMax

\* C20: the agent's x and z are within [-6.5, 6.5] in every state, and so
\* is every wander target it has chosen.
C20_WithinBounds ==
  /\ InBounds(Npc.position)
  /\ Agent.wanderTarget # <<>> => InBounds(Agent.wanderTarget)

C20_Witness ==
  /\ Npc.position[1] = -boundsMax
  /\ log[NpcId].pokedEvents = MaxPokes
  /\ Agent.wanderTarget # <<>>
  /\ Agent.wanderTarget[1] = -boundsMax

(***************************************************************************)
(* Properties of the physics layer (SpecPhysics).                          *)
(***************************************************************************)
\* a step of the given call: the call is the last one observed and nothing
\* that only other operations write has changed
CallStep(op) ==
  /\ lastCall'.op = op
  /\ UNCHANGED <<initPending, entityBodyMap, log>>
  /\ DOMAIN entities' = DOMAIN entities

UpdateStep == CallStep("update")

DynamicBodied(id) == id \in DOMAIN entityBodyMap /\ entityBodyMap[id] = "dynamic"

\* C21: an update with the backend ready writes the backend position of
\* every registered dynamic body whose entity exists into the entity and,
\* for kinds other than the player, the backend rotation too; it never
\* changes the player's rotation, and it leaves every entity with a fixed
\* body or with no body as it was.
C21_UpdateSyncsDynamicBodies ==
  [][UpdateStep /\ isReady =>
       \A id \in DOMAIN entities :
         IF DynamicBodied(id)
         THEN /\ entities'[id].position = rigidBodies'[id].translation
              /\ entities[id].type # "player" => entities'[id].facing = rigidBodies'[id].rotation
              /\ entities[id].type = "player" => entities'[id].facing = entities[id].facing
         ELSE entities'[id] = entities[id]]_vars

C21_Witness ==
  /\ lastCall.op = "update"
  /\ DynamicBodied(PlayerId)
  /\ entities[PlayerId].position = rigidBodies[PlayerId].translation
  /\ entities[PlayerId].position # Home(PlayerId)
  /\ entities[PlayerId].facing # rigidBodies[PlayerId].rotation
  /\ "prop_a" \in DOMAIN entities /\ DynamicBodied("prop_a")
  /\ entities["prop_a"].position = rigidBodies["prop_a"].translation
  /\ entities["prop_a"].facing = Vec(-1000, 0, 0)
  /\ "prop_b" \in DOMAIN entityBodyMap
  /\ entities["prop_b"] = NewEntity("scratchable", Home("prop_b"))

\* C22: applyImpulse reaches the backend only when a body is registered for
\* the id and the body is dynamic; for an unknown id or a fixed body the
\* call changes nothing and raises no error.
C22_ImpulseOnlyToDynamicBody ==
  [][CallStep("applyImpulse") =>
       /\ ~lastCall'.threw
       /\ entities' = entities
       /\ UNCHANGED physicsVars
       /\ IF DynamicBodied(lastCall'.arg)
          THEN /\ rigidBodies'[lastCall'.arg].impulses = rigidBodies[lastCall'.arg].impulses + 1
               /\ \A id \in DOMAIN rigidBodies \ {lastCall'.arg} : rigidBodies'[id] = rigidBodies[id]
          ELSE rigidBodies' = rigidBodies]_vars

C22_Witness ==
  /\ lastCall.op = "applyImpulse" /\ lastCall.arg = "prop_b" /\ ~lastCall.threw
  /\ "prop_b" \in DOMAIN entityBodyMap /\ entityBodyMap["prop_b"] = "fixed"
  /\ rigidBodies["prop_b"].impulses = 0
  /\ DynamicBodied("prop_a")
  /\ rigidBodies["prop_a"].impulses = 1
  /\ log["prop_a"].hits = 0

\* C23: for the same flat floor and every origin height the grounded check
\* gives the same boolean on both paths: with the backend ready a downward
\* ray hits the floor within max_distance, and with the backend unavailable
\* the check is origin.y <= 0.55.
C23_GroundingPathsAgree ==
  lastCall.op = "raycast" =>
    LET originY == lastCall.arg[1]
        maxDistance == lastCall.arg[2]
        queryFailed == lastCall.arg[3]
        grounded == lastCall.result = "hit"
    IN /\ (isReady /\ FloorColliderId \in DOMAIN rigidBodies /\ ~queryFailed)
            => (grounded <=> RayHitsFloor(originY, maxDistance))
       /\ ~isReady => (grounded <=> checkGrounded(originY))
       /\ RayHitsFloor(originY, maxDistance) <=> checkGrounded(originY)

\* C24: overlapSphere never throws; it returns the empty list when the
\* backend is unavailable or the query fails.
C24_OverlapNeverThrows ==
  lastCall.op = "overlapSphere" =>
    /\ ~lastCall.threw
    /\ (rapierWorld = "null" \/ lastCall.arg[2]) => lastCall.result = {}

C24_Witness ==
  /\ lastCall.op = "overlapSphere"
  /\ lastCall.arg[2]
  /\ isReady
  /\ "prop_a" \in DOMAIN rigidBodies
  /\ overlapSphere(rapierWorld, rigidBodies, lastCall.arg[1], pawRadius, FALSE).result = {"prop_a"}
  /\ lastCall.result = {}
  /\ ~lastCall.threw

\* the backend initialisation has failed
InitFailed == ~initPending /\ ~initialized

\* a hit handed to the interaction resolver
KnockStep(id) == id \in DOMAIN entities /\ log'[id].hits = log[id].hits + 1

\* C25: once the backend initialisation has failed, isReady() is false for
\* the rest of the session, update changes no entity, no call into the
\* physics layer throws, and a knock is resolved without the backend (it
\* marks the prop and kicks its velocity).
C25_FailedInitDegradesQuietly ==
  /\ [](InitFailed => ~isReady /\ ~lastCall.threw)
  /\ [][InitFailed =>
          /\ InitFailed'
          /\ UpdateStep => entities' = entities
          /\ \A id \in PropIds :
               (KnockStep(id) /\ entities[id].type = "knockable") =>
                  /\ entities'[id].knocked
                  /\ log'[id].velocityKicks = log[id].velocityKicks + 1
                  /\ log'[id].applyImpulseCalls = log[id].applyImpulseCalls]_vars

C25_Witness ==
  /\ InitFailed
  /\ lastCall.op = "update"
  /\ log["prop_a"].velocityKicks = 1
  /\ "prop_a" \in DOMAIN entities /\ entities["prop_a"].knocked
  /\ entityBodyMap = <<>>

\* an entity leaves the store in this step
Removed(id) == id \in DOMAIN entities /\ id \notin DOMAIN entities'

\* C26: removing an entity from the store releases its physics handle too,
\* so every id in the body map and in the collider map is the id of an
\* entity in the store.
C26_HandlesFollowEntities ==
  /\ [](\A id \in DOMAIN entityBodyMap \cup DOMAIN entityColliderMap : id \in DOMAIN entities)
  /\ [][\A id \in StoreIds :
          Removed(id) => id \notin DOMAIN entityBodyMap' \cup DOMAIN entityColliderMap']_vars

\* the ids with a registered body and no entity in the store
StaleIds == DOMAIN entityBodyMap \ DOMAIN entities

PressOver(side) ==
  /\ presses[side].phase = "up"
  /\ PawKey(side) \notin DOMAIN tapTimers
  /\ PawKey(side) \notin previousKeys

\* C28: on each side one key press (a keydown, possibly auto-repeated, and
\* one keyup, held for any number of updates or released between two
\* updates) makes the side's pressed-this-tick flag true on exactly one
\* update: never on more than one, and on one once the press is over.
C28_OnePressOneReport ==
  \A side \in Sides :
    /\ presses[side].reported <= 1
    /\ PressOver(side) => presses[side].reported = 1

(***************************************************************************)
(* Properties of timed behaviour (SpecTimer).                              *)
(***************************************************************************)
\* a callback handed to setTimeout runs in this step
CallbackRuns == \E id \in DOMAIN timeouts : timeouts'[id] < timeouts[id]

HorizontalMultiple(v, k, d) == v[1] = k * d[1] /\ v[3] = k * d[3]

\* C30: for a hit on a knockable, on the backend path and on the velocity
\* kick alike, the horizontal part of the applied impulse is a positive
\* multiple (5 and 8) of the horizontal part of
\* normalize(target.position - paw collider centre), taken from the
\* positions at the hit.
C30_ImpulseAlongHitDirection ==
  [][\A id \in PropIds :
       (KnockStep(id) /\ entities[id].type = "knockable") =>
         \E center \in PawCenters :
           LET d == Normalize(SubVectors(entities[id].position, center))
           IN /\ WithinReach(center, entities[id].position)
              /\ log'[id].lastDirection = d
              /\ IF isReady
                 THEN /\ impulseStrength > 0
                      /\ HorizontalMultiple(log'[id].lastImpulse, impulseStrength, d)
                      /\ DynamicBodied(id) =>
                           /\ rigidBodies'[id].impulses = rigidBodies[id].impulses + 1
                           /\ rigidBodies'[id].impulse = log'[id].lastImpulse
                      /\ entities'[id].velocity = entities[id].velocity
                 ELSE /\ fallbackStrength > 0
                      /\ HorizontalMultiple(SubVectors(entities'[id].velocity, entities[id].velocity),
                                            fallbackStrength, d)]_vars

C30_Witness ==
  /\ log["prop_a"].velocityKicks > 0
  /\ log["prop_a"].bodyImpulses > 0
  /\ DynamicBodied("prop_a")
  /\ rigidBodies["prop_a"].impulse = log["prop_a"].lastImpulse
  /\ rigidBodies["prop_a"].impulse[1] > 0
  /\ rigidBodies["prop_a"].impulse[3] # 0
  /\ entities["prop_a"].velocity[1] > 0

(***************************************************************************)
(* TaskSystem (C31)                                                        *)
(***************************************************************************)
\* the surface a scratch task names in its description
Surface(taskId) == IF taskId = "scratch_couch" THEN Couch ELSE ScratchingPost

ScratchTasks == {"scratch_couch", "scratch_post"}

\* C31: each scratch task advances, and so completes, only once its own
\* surface has reached full progress; a scratch_complete event of the other
\* surface leaves it alone
C31_OwnSurfaceCompletesTask ==
  \A id \in ScratchTasks :
    tasks[id].progress > 0 \/ tasks[id].completed
      => entities[Surface(id)].scratchProgress = scratchMax

(***************************************************************************)
(* SeededRNG (C32)                                                         *)
(***************************************************************************)
\* C32: once seeded, the generator's state is in 1 .. lcgModulus - 1 after
\* construction and after every call, and every result
\* numerator / (lcgModulus - 1) is at least 0 and less than 1
C32_StateAndResultInRange ==
  globalRNG.set =>
    /\ globalRNG.seed >= 1
    /\ globalRNG.seed <= lcgModulus - 1
    /\ globalRNG.calls > 0 =>
         globalRNG.numerator >= 0 /\ globalRNG.numerator < lcgModulus - 1

(***************************************************************************)
(* Swipe timing (C33 .. C36)                                               *)
(***************************************************************************)
\* the side's tracker has been started at least once
Activated(side) == Len(cycle[side].trace) >= 2

\* the phase the spec's timing puts a tracker in when the ticks since the
\* starting edge add up to elapsed
PhaseAt(elapsed) ==
  IF elapsed < swipeStartupTime THEN "Startup"
  ELSE IF elapsed < swipeStartupTime + swipeActiveTime THEN "Active"
  ELSE IF elapsed < TotalSwipeTime THEN "Recovery"
  ELSE "Idle"

\* C33: with frame times of at most 0.1 s, after every tick a started
\* tracker is in the phase its accumulated time since the edge calls for:
\* Active from the first tick that reaches 0.075 s, Recovery from the first
\* that reaches 0.25 s, Idle from the first that reaches 0.35 s, with no
\* phase skipped and none held for an extra tick
C33_PhasesFollowElapsedTime ==
  \A side \in Sides :
    Activated(side) =>
      /\ Tracker(side).state = PhaseAt(cycle[side].elapsed)
      /\ cycle[side].trace = SubSeq(FullCycle, 1, Len(cycle[side].trace))

\* C33 witness: the two sides were started on different ticks and ticked by
\* different frame times; one entered Recovery on the tick that reached
\* 0.25 s exactly, the other is still in its Active window
C33_Witness ==
  \E side \in Sides :
    /\ Tracker(side).state = "Recovery"
    /\ cycle[side].elapsed = swipeStartupTime + swipeActiveTime
    /\ Tracker(Other(side)).state = "Active"
    /\ cycle[Other(side)].elapsed = swipeStartupTime

\* C34: in every reachable state an Idle tracker has timer 0, an Active one
\* at least the startup time (so never a zero timer) and one in Recovery at
\* least startup plus active time; and from tick to tick of one activation
\* the timer never decreases
C34_TimerMatchesState ==
  /\ [](\A side \in Sides :
          /\ Tracker(side).state = "Idle" => Tracker(side).timer = 0
          /\ Tracker(side).state = "Active" =>
               Tracker(side).timer >= swipeStartupTime /\ Tracker(side).timer > 0
          /\ Tracker(side).state = "Recovery" =>
               Tracker(side).timer >= swipeStartupTime + swipeActiveTime)
  /\ [][\A side \in Sides :
          (Tracker(side).state # "Idle" /\ Tracker(side)'.state # "Idle")
            => Tracker(side)'.timer >= Tracker(side).timer]_vars

\* C34 witness: a tracker in Recovery with more than the threshold on its
\* timer next to one that completed its activation and is Idle again
C34_Witness ==
  \E side \in Sides :
    /\ Tracker(side).state = "Recovery"
    /\ Tracker(side).timer > swipeStartupTime + swipeActiveTime
    /\ Tracker(Other(side)).state = "Idle"
    /\ cycle[Other(side)].trace = FullCycle
    /\ Tracker(Other(side)).timer = 0

\* C35: a tracker in Recovery has run the collision check on at least one
\* tick of its activation, whatever the frame times were, also when one
\* tick carried the timer from Startup past the end of the Active window
C35_RecoveryImpliesChecked ==
  \A side \in Sides : Tracker(side).state = "Recovery" => cycle[side].checked

\* C35 witness: a tracker reached Recovery after the tick that took it out of
\* Startup had already used up the whole Active window, and the check has run
C35_Witness ==
  \E side \in Sides :
    /\ Tracker(side).state = "Recovery"
    /\ cycle[side].overran
    /\ cycle[side].checked

\* the frame's animation.update leaves the side's paw animating, for some
\* frame time the loop can hand to it
PresentingAtUpdate(side) ==
  \E deltaTime \in FrameDeltas : isAnimating(AnimationUpdate(animations, deltaTime), side)

\* C36: with frame times of at most 0.1 s and animation.update running
\* before pawInteraction.update, a tracker that is Idle when its update runs
\* never finds its paw animating, and a frame whose input reports the
\* side's press to an Idle tracker starts the activation in that frame
C36_IdleIsNeverPresenting ==
  /\ [](\A side \in Sides : Tracker(side).state = "Idle" => ~PresentingAtUpdate(side))
  /\ [][\A side \in Sides :
          (Tracker(side).state = "Idle" /\ Pressed(side)')
            => Tracker(side)'.state = "Startup"]_vars

\* C36 witness: a side started its second activation, from the Idle state
\* its first one ended in, while the other side has never been started
C36_Witness ==
  \E side \in Sides :
    /\ swipes = 2
    /\ Tracker(side).state = "Startup"
    /\ Pressed(side)
    /\ cycle[Other(side)].trace = <<"Idle">>

(***************************************************************************)
(* Agent state (C37, C39)                                                  *)
(***************************************************************************)
\* C37: after every update of the agent and after every poke handler the
\* agent's aiState is 'Poked' exactly when its reactionCooldown is positive
C37_PokedIffCooldown ==
  \A id \in DOMAIN agents :
    (entities[id].aiState = "Poked") <=> (entities[id].reactionCooldown > 0)

\* C37 witness: the agent was poked, its cooldown ran out in an update that
\* took it back to Wander with no cooldown left
C37_Witness ==
  /\ NpcId \in DOMAIN agents
  /\ log[NpcId].pokedEvents > 0
  /\ Npc.aiState = "Wander"
  /\ Npc.reactionCooldown <= 0
  /\ Agent.ranSeparation

(***************************************************************************)
(* Knocks and the backend's readiness (C38)                                *)
(***************************************************************************)
\* the resolver handled a hit on the knockable entity in this step
KnockHit(id) ==
  /\ entities[id].type = "knockable"
  /\ log'[id].hits > log[id].hits

\* C38: every hit on a knockable changes the target's motion, by an impulse
\* that reaches a registered dynamic body or by a kick to the entity's
\* velocity, however the backend's initialisation and the registration of
\* bodies interleave with the hits
C38_EveryKnockMovesTarget ==
  [][\A id \in PropIds :
       KnockHit(id) =>
         \/ log'[id].bodyImpulses > log[id].bodyImpulses
         \/ /\ log'[id].velocityKicks > log[id].velocityKicks
            /\ entities'[id].velocity # entities[id].velocity]_vars

\* C39: an agent in Recover never goes to AvoidCat in one step; it leaves
\* Recover only by a poke (to Poked) or by the update in which its recovery
\* time reaches recover_delay (to Wander), and an update with the player
\* inside the personal space before that leaves it in Recover
C39_RecoverIgnoresProximity ==
  [][Npc.aiState = "Recover" =>
       /\ Npc'.aiState # "AvoidCat"
       /\ Npc'.aiState # "Recover" =>
            \/ PokeStep /\ Npc'.aiState = "Poked"
            \/ /\ TickStep
               /\ Npc'.aiState = "Wander"
               /\ Agent.avoidTimer + Agent.frame >= recoverDelay
       /\ (TickStep /\ InPersonalSpace(Agent'.tickDistSq)
             /\ Agent.avoidTimer + Agent.frame < recoverDelay)
            => Npc'.aiState = "Recover"]_vars

\* C39 witness: the agent is in Recover after an update of its recovery
\* during which the player stood inside its personal space
C39_Witness ==
  /\ NpcId \in DOMAIN agents
  /\ Npc.aiState = "Recover"
  /\ Agent.avoidTimer > 0
  /\ InPersonalSpace(Agent.tickDistSq)

====
